---- MODULE Spec2Model ----
(***************************************************************************)
(* A model of toktop: the cursor-paginated provider clients                *)
(* (src/api/openai.rs, src/api/anthropic.rs), the fetch aggregation        *)
(* (src/fetch.rs) and the fetch tasks and key handling of the main loop    *)
(* (src/main.rs, src/app.rs).                                              *)
(*                                                                         *)
(* Three specifications share the variables:                               *)
(*   SpecPage  one paginated call against an arbitrary server              *)
(*   SpecAgg   fetch_usage / fetch_openai_data / fetch_anthropic_data as   *)
(*             functions of the results of the calls they join             *)
(*   Spec      the App behind its mutex: key events and fetch tasks        *)
(***************************************************************************)
EXTENDS Integers, Sequences, FiniteSets, TLC

VARIABLES
    pg,      \* the paginated call in progress (SpecPage)
    agg,     \* inputs and outcome of one aggregation (SpecAgg)
    app,     \* the App struct behind Arc<Mutex<App>> (Spec)
    lock,    \* holder of the App mutex: None, or Some(task id)
    tasks,   \* the fetch tasks spawned by spawn_fetch_task
    running, \* main has not returned: the runtime is not shutting down
    ui       \* the position of main in a pass of its loop (Spec); the chart
             \* computations of a render pass (SpecLayout, SpecChart); the
             \* navigation state (SpecNav); the last key handled (SpecKeys)

vars == <<pg, agg, app, lock, tasks, running, ui>>

----------------------------------------------------------------------------
(* Option<T> and Result<T, E> *)

None == <<>>
Some(x) == <<x>>
IsSome(o) == o # <<>>

Ok(v) == [ok |-> TRUE, val |-> v]
Err(m) == [ok |-> FALSE, err |-> m]

RECURSIVE Flatten(_)
Flatten(ss) == IF ss = <<>> THEN <<>> ELSE Head(ss) \o Flatten(Tail(ss))

RECURSIVE JoinWith(_, _)
\* Vec<String>::join(sep)
JoinWith(ss, sep) ==
    IF ss = <<>> THEN ""
    ELSE IF Len(ss) = 1 THEN ss[1]
    ELSE ss[1] \o sep \o JoinWith(Tail(ss), sep)

----------------------------------------------------------------------------
(* Cursor-paginated calls: OpenAIClient::fetch_costs,                      *)
(* OpenAIClient::fetch_usage_endpoint, AnthropicClient::fetch_costs,       *)
(* AnthropicClient::fetch_usage.                                           *)

\* `for _ in 0..30`
PageCap == 30

\* The model stops a call that has made this many requests (the Anthropic
\* loops have no cap of their own).
MaxRequests == 32
\* How many responses of one call may report has_more without a cursor.
MaxNullCursor == 1

OpenAIKinds == {"costs", "completions", "embeddings", "images"}
AnthropicKinds == {"cost_report", "usage_report"}
Kinds == OpenAIKinds \cup AnthropicKinds

\* The OpenAI loops are `for _ in 0..30`, the Anthropic ones `loop`.
Capped(kind) == kind \in OpenAIKinds

\* The server side: the page a cursor names.  Page contents are a function
\* of the cursor, pages hold 0, 1 or 2 buckets.
ServerPage(kind, cursor) ==
    LET c == IF cursor = None THEN 0 ELSE cursor[1]
        n == (c + 1) % 3
    IN  [j \in 1..n |-> [endpoint |-> kind, page |-> c, item |-> j]]

ServerNextCursor(cursor) == IF cursor = None THEN Some(1) ELSE Some(cursor[1] + 1)

Statuses == {"ok", "send_failed", "read_failed", "http_error", "bad_body"}

\* What the server answers to a request carrying `cursor`.
Responses(kind, cursor) ==
    { [status |-> s, data |-> ServerPage(kind, cursor), has_more |-> h, next_page |-> n] :
        s \in Statuses, h \in BOOLEAN, n \in {None, ServerNextCursor(cursor)} }

\* e.to_string() of the error a failed page request returns
PageErrorText(kind, status) ==
    IF kind \in {"completions", "embeddings", "images"} THEN
        CASE status = "send_failed" -> "Failed to fetch " \o kind \o " usage"
          [] status = "read_failed" -> "Failed to read response"
          [] status = "http_error" ->
                "API error for " \o kind \o ": 500 Internal Server Error - body"
          [] OTHER -> "Failed to parse " \o kind \o " usage response: body"
    ELSE IF kind = "costs" THEN
        CASE status = "send_failed" -> "Failed to fetch costs"
          [] status = "read_failed" -> "Failed to read response"
          [] status = "http_error" -> "API error: 500 Internal Server Error - body"
          [] OTHER -> "Parse error: body"
    ELSE
        CASE status = "send_failed" -> "Failed to send request"
          [] status = "read_failed" -> "Failed to read response body"
          [] status = "http_error" -> "API error: 500 Internal Server Error - body"
          [] OTHER -> "Failed to parse response. Status: 200 OK. Response: body"

NewCall(kind) ==
    [kind |-> kind, pc |-> "loop", page |-> None, iter |-> 0,
     all_buckets |-> <<>>, result |-> None,
     reqLog |-> <<>>, respLog |-> <<>>]

\* A page error that ends the call with the pages fetched so far.
PageFailedKeepsPages(call, status) ==
    [call EXCEPT !.pc = "done", !.result = Some(Ok(call.all_buckets))]

\* `.context(..)?` / `return Err(..)`: the call ends, all_buckets is dropped
PageFailed(call, status) ==
    [call EXCEPT !.pc = "done", !.all_buckets = <<>>,
                 !.result = Some(Err(PageErrorText(call.kind, status)))]

\* all_buckets.extend(resp.data)
ExtendBuckets(all, data) == all \o data

\* The cursor is never advanced.
NextPageKeepsCursor(page, resp) == page

\* page = resp.next_page
NextPage(page, resp) == resp.next_page

\* whether the loop header admits another iteration after `iter` of them
LoopContinues(kind, iter) == Capped(kind) => iter < PageCap

\* One iteration of the loop body on response resp, then the loop header.
PageIteration(call, resp) ==
    LET logged == [call EXCEPT !.reqLog = Append(@, call.page),
                               !.respLog = Append(@, [status |-> resp.status,
                                                       has_more |-> resp.has_more,
                                                       next_page |-> resp.next_page])]
    IN
    IF resp.status # "ok" THEN PageFailed(logged, resp.status)
    ELSE
        LET all == ExtendBuckets(call.all_buckets, resp.data) IN
        IF ~resp.has_more \/ ~LoopContinues(call.kind, call.iter + 1) THEN
            [logged EXCEPT !.pc = "done", !.all_buckets = all, !.result = Some(Ok(all))]
        ELSE
            [logged EXCEPT !.all_buckets = all, !.iter = call.iter + 1,
                           !.page = NextPage(call.page, resp)]

NullCursors(call) ==
    Cardinality({i \in 1..Len(call.respLog) :
                    call.respLog[i].has_more /\ call.respLog[i].next_page = None})


\* A request is sent and answered.
PageRequest ==
    /\ pg.pc = "loop"
    /\ Len(pg.reqLog) < MaxRequests
    /\ \E resp \in Responses(pg.kind, pg.page) :
        /\ (resp.status = "ok" /\ resp.has_more /\ resp.next_page = None)
              => NullCursors(pg) < MaxNullCursor
        /\ pg' = PageIteration(pg, resp)
    /\ UNCHANGED <<ui, agg, app, lock, tasks, running>>

InitPage ==
    /\ pg \in {NewCall(k) : k \in Kinds}
    /\ agg = None
    /\ app = None
    /\ lock = None
    /\ tasks = <<>>
    /\ running = TRUE
    /\ ui = None

NextPageCall == PageRequest

SpecPage == InitPage /\ [][NextPageCall]_vars

----------------------------------------------------------------------------
(* OpenAIClient::fetch_usage: the three usage sub-resources joined *)

UsageEndpoints == <<"completions", "embeddings", "images">>

\* format!("{}: {}", name, e)
EndpointError(name, e) == name \o ": " \o e

RECURSIVE CollectBuckets(_, _)
\* Ok(mut buckets) => all_buckets.append(&mut buckets), in the order of results
CollectBuckets(results, i) ==
    IF i > Len(results) THEN <<>>
    ELSE (IF results[i].ok THEN results[i].val ELSE <<>>) \o CollectBuckets(results, i + 1)

RECURSIVE CollectErrors(_, _)
\* Err(e) => endpoint_errors.push(format!("{}: {}", name, e))
CollectErrors(results, i) ==
    IF i > Len(results) THEN <<>>
    ELSE (IF results[i].ok THEN <<>>
          ELSE <<EndpointError(UsageEndpoints[i], results[i].err)>>)
         \o CollectErrors(results, i + 1)

\* if all_buckets.is_empty() && !endpoint_errors.is_empty()
UsageFails(all_buckets, endpoint_errors) ==
    all_buckets = <<>> /\ endpoint_errors # <<>>

\* results = <<completions_result, embeddings_result, images_result>>
fetch_usage(results) ==
    LET all_buckets == CollectBuckets(results, 1)
        endpoint_errors == CollectErrors(results, 1)
    IN  IF UsageFails(all_buckets, endpoint_errors)
        THEN Err("Failed to fetch usage from any endpoint: "
                    \o JoinWith(endpoint_errors, "; "))
        ELSE Ok(all_buckets)

----------------------------------------------------------------------------
(* fetch.rs: fetch_data, fetch_openai_data, fetch_anthropic_data *)

Providers == {"OpenAI", "Anthropic"}

\* DateTime::from_timestamp(start_time, 0) .date_naive() .and_hms_opt(0, 0, 0):
\* the timestamp of the UTC midnight at or before start_time
MidnightOf(start_time) == (start_time \div 86400) * 86400

\* DateTime::parse_from_rfc3339 on the bucket starts the servers of the model send
ParseRfc3339(text) ==
    CASE text = "1970-01-02T00:00:00Z" -> Some(86400)
      [] text = "1970-01-03T00:00:00Z" -> Some(172800)
      [] text = "1970-01-03T12:00:00Z" -> Some(216000)
      [] OTHER -> None

\* str::parse::<f64> on the amounts the servers of the model send (cents)
ParseAmount(text) ==
    CASE text = "250" -> Some(250)
      [] text = "40" -> Some(40)
      [] text = "0" -> Some(0)
      [] OTHER -> None

RECURSIVE InsertByDate(_, _)
InsertByDate(sorted, d) ==
    IF sorted = <<>> THEN <<d>>
    ELSE IF Head(sorted).date <= d.date
         THEN <<Head(sorted)>> \o InsertByDate(Tail(sorted), d)
         ELSE <<d>> \o sorted

RECURSIVE SortByDate(_)
\* Vec::sort_by_key(|d| d.date): stable
SortByDate(records) ==
    IF records = <<>> THEN <<>>
    ELSE InsertByDate(SortByDate(SubSeq(records, 1, Len(records) - 1)),
                      records[Len(records)])

\* Costs are fixed-point, in hundredths of a dollar.
OpenAICostRecords(buckets) ==
    Flatten([b \in 1..Len(buckets) |->
        [r \in 1..Len(buckets[b].results) |->
            [date |-> MidnightOf(buckets[b].start_time),
             cost |-> buckets[b].results[r].amount,
             line_item |-> buckets[b].results[r].line_item]]])

HasTokens(record) == record.input_tokens > 0 \/ record.output_tokens > 0

OpenAIUsageRecords(buckets) ==
    SelectSeq(
        Flatten([b \in 1..Len(buckets) |->
            [r \in 1..Len(buckets[b].results) |->
                [date |-> MidnightOf(buckets[b].start_time),
                 input_tokens |-> buckets[b].results[r].input_tokens,
                 output_tokens |-> buckets[b].results[r].output_tokens,
                 api_key_id |-> buckets[b].results[r].api_key_id,
                 model |-> buckets[b].results[r].model]]]),
        HasTokens)

\* the HashSet of the pushed records' key ids, without "" and "unknown"
ApiKeyIds(usage_data) ==
    { usage_data[i].api_key_id[1] :
        i \in { j \in 1..Len(usage_data) : IsSome(usage_data[j].api_key_id) } }
    \ {"", "unknown"}

\* append_error: the new value of *target
append_error(target, message) ==
    IF IsSome(target) THEN Some(target[1] \o "; " \o message) ELSE Some(message)

RECURSIVE InsertKeys(_, _, _)
InsertKeys(map, keys, ids) ==
    IF keys = <<>> THEN map
    ELSE LET k == Head(keys)
             next == IF k.id \in ids
                     THEN [x \in DOMAIN map \cup {k.id} |->
                              IF x = k.id THEN k.name ELSE map[x]]
                     ELSE map
         IN  InsertKeys(next, Tail(keys), ids)

RECURSIVE InsertProjects(_, _, _)
\* `if let Ok(Ok(api_keys)) = task.await`: a failed project is skipped
InsertProjects(map, projects, ids) ==
    IF projects = <<>> THEN map
    ELSE InsertProjects(
            IF Head(projects).ok THEN InsertKeys(map, Head(projects).val, ids) ELSE map,
            Tail(projects), ids)

\* projects: the result of fetch_projects, each project given as the result
\* of fetch_api_keys_for_project
fetch_api_key_names_for_ids(api_key_ids, projects) ==
    IF ~projects.ok THEN Err("Failed to fetch projects")
    ELSE Ok(InsertProjects(<<>>, projects.val, api_key_ids))

NoErrors == [cost |-> None, usage |-> None]

EmptyOutcome(provider) ==
    [provider |-> provider, cost_data |-> <<>>, usage_data |-> <<>>,
     api_key_names |-> <<>>, errors |-> NoErrors]

\* A failed cost call is reported in the usage slot.
CostErrorIntoUsage(out, e) ==
    [out EXCEPT !.errors.usage = append_error(out.errors.usage, e)]

\* Err(e) => append_error(&mut errors.cost, e.to_string())
CostError(out, e) ==
    [out EXCEPT !.errors.cost = append_error(out.errors.cost, e)]

\* Err(e) => append_error(&mut errors.usage, format!("Usage fetch failed: {}", e))
UsageError(out, e) ==
    [out EXCEPT !.errors.usage = append_error(out.errors.usage, "Usage fetch failed: " \o e)]

\* A failed key-name lookup that throws the usage records away.
KeyNameErrorDropsUsage(out, e) ==
    [out EXCEPT !.usage_data = <<>>,
                !.errors.usage = append_error(out.errors.usage,
                                              "API key name fetch failed: " \o e)]

\* Err(e) => append_error(&mut errors.usage, format!("API key name fetch failed: {}", e))
KeyNameError(out, e) ==
    [out EXCEPT !.errors.usage = append_error(out.errors.usage,
                                              "API key name fetch failed: " \o e)]

\* client: Option<OpenAIClient> as a boolean; costs_result, usage_result:
\* what the joined calls returned; projects: what the key-name lookup meets
fetch_openai_data(client, costs_result, usage_result, projects) ==
    IF ~client THEN EmptyOutcome("OpenAI")
    ELSE
    LET o0 == EmptyOutcome("OpenAI")
        o1 == IF costs_result.ok
              THEN [o0 EXCEPT !.cost_data = SortByDate(OpenAICostRecords(costs_result.val))]
              ELSE CostError(o0, costs_result.err)
    IN  IF ~usage_result.ok THEN UsageError(o1, usage_result.err)
        ELSE
        LET usage_data == SortByDate(OpenAIUsageRecords(usage_result.val))
            api_key_ids == ApiKeyIds(usage_data)
            o2 == [o1 EXCEPT !.usage_data = usage_data]
        IN  IF api_key_ids = {} THEN o2
            ELSE LET names == fetch_api_key_names_for_ids(api_key_ids, projects)
                 IN  IF names.ok THEN [o2 EXCEPT !.api_key_names = names.val]
                     ELSE KeyNameError(o2, names.err)

AnthropicCostOf(bucket_start, result) ==
    LET cents == ParseAmount(result.amount) IN
    IF IsSome(cents) /\ cents[1] > 0
    THEN <<[date |-> bucket_start, cost |-> cents[1], line_item |-> result.model]>>
    ELSE <<>>

AnthropicCostRecords(buckets) ==
    Flatten([b \in 1..Len(buckets) |->
        LET start == ParseRfc3339(buckets[b].starting_at) IN
        IF IsSome(start)
        THEN Flatten([r \in 1..Len(buckets[b].results) |->
                        AnthropicCostOf(start[1], buckets[b].results[r])])
        ELSE <<>>])

AnthropicUsageRecords(buckets) ==
    SelectSeq(
        Flatten([b \in 1..Len(buckets) |->
            LET start == ParseRfc3339(buckets[b].starting_at) IN
            IF IsSome(start)
            THEN [r \in 1..Len(buckets[b].results) |->
                    [date |-> start[1],
                     input_tokens |-> buckets[b].results[r].uncached_input_tokens
                                    + buckets[b].results[r].ephemeral_1h_input_tokens
                                    + buckets[b].results[r].ephemeral_5m_input_tokens
                                    + buckets[b].results[r].cache_read_input_tokens,
                     output_tokens |-> buckets[b].results[r].output_tokens,
                     api_key_id |-> buckets[b].results[r].api_key_id,
                     model |-> buckets[b].results[r].model]]
            ELSE <<>>]),
        HasTokens)

\* lookups: key id -> the result of fetch_api_key_name for it; a failed
\* lookup leaves the id without a name
AnthropicKeyNames(api_key_ids, lookups) ==
    [id \in {i \in api_key_ids : i \in DOMAIN lookups /\ lookups[i].ok} |-> lookups[id].val]

fetch_anthropic_data(client, costs_result, usage_result, lookups) ==
    IF ~client THEN EmptyOutcome("Anthropic")
    ELSE
    LET o0 == EmptyOutcome("Anthropic")
        o1 == IF costs_result.ok
              THEN [o0 EXCEPT !.cost_data = SortByDate(AnthropicCostRecords(costs_result.val))]
              ELSE CostError(o0, costs_result.err)
    IN  IF ~usage_result.ok THEN UsageError(o1, usage_result.err)
        ELSE
        LET usage_data == SortByDate(AnthropicUsageRecords(usage_result.val))
            api_key_ids == ApiKeyIds(usage_data)
        IN  [o1 EXCEPT !.usage_data = usage_data,
                       !.api_key_names = AnthropicKeyNames(api_key_ids, lookups)]

\* net: what the provider's server lets each joined call return
fetch_data(provider, openai_client, anthropic_client, net) ==
    IF provider = "OpenAI"
    THEN fetch_openai_data(openai_client, net.costs, fetch_usage(net.subs), net.projects)
    ELSE fetch_anthropic_data(anthropic_client, net.costs, net.usage, net.lookups)

----------------------------------------------------------------------------
(* The servers the aggregation is run against *)

OpenAIUsageBucket(endpoint) ==
    CASE endpoint = "completions" ->
            [start_time |-> 176400,
             results |-> <<[input_tokens |-> 10, output_tokens |-> 5,
                            api_key_id |-> Some("key_a"), model |-> Some("gpt-4")],
                           [input_tokens |-> 3, output_tokens |-> 0,
                            api_key_id |-> Some("unknown"), model |-> None]>>]
      [] endpoint = "embeddings" ->
            [start_time |-> 86400,
             results |-> <<[input_tokens |-> 7, output_tokens |-> 0,
                            api_key_id |-> None, model |-> Some("emb")]>>]
      [] OTHER ->
            [start_time |-> 86400,
             results |-> <<[input_tokens |-> 0, output_tokens |-> 0,
                            api_key_id |-> Some("key_b"), model |-> Some("dall-e")]>>]

SubResults(endpoint) ==
    { Ok(<<>>), Ok(<<OpenAIUsageBucket(endpoint)>>),
      Err(PageErrorText(endpoint, "http_error")) }

OpenAICostBuckets ==
    <<[start_time |-> 172800,
       results |-> <<[amount |-> 250, line_item |-> Some("gpt-4")],
                     [amount |-> 40, line_item |-> None]>>],
      [start_time |-> 90000,
       results |-> <<[amount |-> 100, line_item |-> Some("gpt-4")]>>]>>

OpenAICostResults ==
    { Ok(<<>>), Ok(OpenAICostBuckets), Err(PageErrorText("costs", "http_error")) }

ProjectResults ==
    { Err("API error: 500 Internal Server Error - body"), Ok(<<>>),
      Ok(<<Err("API error: 500 Internal Server Error - body"),
           Ok(<<[id |-> "key_a", name |-> "prod"], [id |-> "key_z", name |-> "other"]>>)>>) }

AnthropicCostBuckets ==
    <<[starting_at |-> "1970-01-03T12:00:00Z",
       results |-> <<[amount |-> "250", model |-> Some("claude")],
                     [amount |-> "0", model |-> Some("free")],
                     [amount |-> "n/a", model |-> None]>>],
      [starting_at |-> "yesterday",
       results |-> <<[amount |-> "40", model |-> Some("claude")]>>],
      [starting_at |-> "1970-01-02T00:00:00Z",
       results |-> <<[amount |-> "40", model |-> None]>>]>>

AnthropicCostResults ==
    { Ok(<<>>), Ok(AnthropicCostBuckets), Err(PageErrorText("cost_report", "bad_body")) }

AnthropicUsageBuckets ==
    <<[starting_at |-> "1970-01-03T00:00:00Z",
       results |-> <<[uncached_input_tokens |-> 1, ephemeral_1h_input_tokens |-> 2,
                      ephemeral_5m_input_tokens |-> 3, cache_read_input_tokens |-> 4,
                      output_tokens |-> 5, api_key_id |-> Some("key_a"),
                      model |-> Some("claude")],
                     [uncached_input_tokens |-> 0, ephemeral_1h_input_tokens |-> 0,
                      ephemeral_5m_input_tokens |-> 0, cache_read_input_tokens |-> 0,
                      output_tokens |-> 0, api_key_id |-> Some("key_b"),
                      model |-> Some("claude")]>>]>>

AnthropicUsageResults ==
    { Ok(<<>>), Ok(AnthropicUsageBuckets), Err(PageErrorText("usage_report", "http_error")) }

LookupResults ==
    { <<>>, [id \in {"key_a"} |-> Ok("prod")], [id \in {"key_a"} |-> Err("API error: 404")] }

OpenAINets ==
    { [costs |-> c, subs |-> <<s1, s2, s3>>, projects |-> p] :
        c \in OpenAICostResults, s1 \in SubResults("completions"),
        s2 \in SubResults("embeddings"), s3 \in SubResults("images"),
        p \in ProjectResults }

AnthropicNets ==
    { [costs |-> c, usage |-> u, lookups |-> l] :
        c \in AnthropicCostResults, u \in AnthropicUsageResults, l \in LookupResults }

----------------------------------------------------------------------------
(* SpecAgg: one fetch_data on every combination of results *)

InitAgg ==
    /\ agg \in { [provider |-> "OpenAI", pc |-> "start", net |-> n,
                  usage_result |-> None, outcome |-> None] : n \in OpenAINets }
          \cup { [provider |-> "Anthropic", pc |-> "start", net |-> n,
                  usage_result |-> None, outcome |-> None] : n \in AnthropicNets }
    /\ pg = None
    /\ app = None
    /\ lock = None
    /\ tasks = <<>>
    /\ running = TRUE
    /\ ui = None

\* tokio::join!(client.fetch_costs(), client.fetch_usage(start_time))
AggJoinOpenAI ==
    /\ agg.provider = "OpenAI"
    /\ agg.pc = "start"
    /\ agg' = [agg EXCEPT !.pc = "joined", !.usage_result = Some(fetch_usage(agg.net.subs))]
    /\ UNCHANGED <<ui, pg, app, lock, tasks, running>>

AggJoinAnthropic ==
    /\ agg.provider = "Anthropic"
    /\ agg.pc = "start"
    /\ agg' = [agg EXCEPT !.pc = "joined", !.usage_result = Some(agg.net.usage)]
    /\ UNCHANGED <<ui, pg, app, lock, tasks, running>>

AggOutcome ==
    /\ agg.pc = "joined"
    /\ agg' = [agg EXCEPT !.pc = "done",
                          !.outcome = Some(fetch_data(agg.provider, TRUE, TRUE, agg.net))]
    /\ UNCHANGED <<ui, pg, app, lock, tasks, running>>

NextAgg == AggJoinOpenAI \/ AggJoinAnthropic \/ AggOutcome

SpecAgg == InitAgg /\ [][NextAgg]_vars

----------------------------------------------------------------------------
(* app.rs: the App struct and its methods *)

\* Fetch tasks the model lets the main loop spawn.
MaxTasks == 2
\* Characters the API-key input may hold.
MaxInput == 1

OptionsColumns == <<"Provider", "Metric", "GroupBy">>
ProviderOrder == <<"OpenAI", "Anthropic">>
Metrics == <<"Usage", "Cost">>
GroupByOptions == <<"Model", "ApiKeys">>

\* iter().position(|x| x == value)
Position(seq, value) == CHOOSE i \in 1..Len(seq) : seq[i] = value

\* (idx + delta).rem_euclid(len), on 1-based positions
Cycle(seq, value, delta) == seq[((Position(seq, value) - 1 + delta) % Len(seq)) + 1]

\* UsageData::new()
NewUsageData ==
    [openai |-> <<>>, anthropic |-> <<>>, anthropic_usage |-> <<>>, openai_usage |-> <<>>,
     anthropic_api_key_names |-> <<>>, openai_api_key_names |-> <<>>]

\* App::new()
NewApp ==
    [openai_client |-> FALSE, anthropic_client |-> FALSE,
     data |-> NewUsageData, loading |-> FALSE,
     selected_provider |-> "OpenAI", options_column |-> "Provider",
     current_view |-> "Usage", group_by |-> "Model",
     openai_errors |-> NoErrors, anthropic_errors |-> NoErrors,
     api_key_popup_active |-> None, api_key_input |-> <<>>]

has_client(a, provider) ==
    IF provider = "OpenAI" THEN a.openai_client ELSE a.anthropic_client

current_provider(a) == a.selected_provider

ensure_selection_has_client(a) ==
    IF has_client(a, a.selected_provider) THEN a
    ELSE IF has_client(a, "OpenAI") THEN [a EXCEPT !.selected_provider = "OpenAI"]
    ELSE IF has_client(a, "Anthropic") THEN [a EXCEPT !.selected_provider = "Anthropic"]
    ELSE a

set_openai_client(a) == ensure_selection_has_client([a EXCEPT !.openai_client = TRUE])

set_anthropic_client(a) == ensure_selection_has_client([a EXCEPT !.anthropic_client = TRUE])

show_api_key_popup(a, provider) ==
    [a EXCEPT !.api_key_popup_active = Some(provider), !.api_key_input = <<>>]

cancel_api_key_popup(a) ==
    [a EXCEPT !.api_key_popup_active = None, !.api_key_input = <<>>]

move_options_column(a, delta) ==
    [a EXCEPT !.options_column = Cycle(OptionsColumns, a.options_column, delta)]

\* The metric changes and group_by stays as it was.
move_column_cursor_keeps_group_by(a, delta) ==
    CASE a.options_column = "Provider" ->
            LET new_provider == Cycle(ProviderOrder, a.selected_provider, delta) IN
            IF new_provider # a.selected_provider
            THEN LET moved == [a EXCEPT !.selected_provider = new_provider] IN
                 IF ~has_client(moved, new_provider)
                 THEN show_api_key_popup(moved, new_provider)
                 ELSE cancel_api_key_popup(moved)
            ELSE a
      [] a.options_column = "Metric" ->
            [a EXCEPT !.current_view = Cycle(Metrics, a.current_view, delta)]
      [] OTHER ->
            IF a.current_view = "Usage"
            THEN [a EXCEPT !.group_by = Cycle(GroupByOptions, a.group_by, delta)]
            ELSE a

move_column_cursor(a, delta) ==
    CASE a.options_column = "Provider" ->
            LET new_provider == Cycle(ProviderOrder, a.selected_provider, delta) IN
            IF new_provider # a.selected_provider
            THEN LET moved == [a EXCEPT !.selected_provider = new_provider] IN
                 IF ~has_client(moved, new_provider)
                 THEN show_api_key_popup(moved, new_provider)
                 ELSE cancel_api_key_popup(moved)
            ELSE a
      [] a.options_column = "Metric" ->
            LET new_view == Cycle(Metrics, a.current_view, delta) IN
            IF new_view # a.current_view
            THEN [a EXCEPT !.current_view = new_view,
                           !.group_by = IF new_view = "Cost" THEN "Model" ELSE a.group_by]
            ELSE a
      [] OTHER ->
            IF a.current_view = "Usage"
            THEN [a EXCEPT !.group_by = Cycle(GroupByOptions, a.group_by, delta)]
            ELSE a

\* str::trim; a String is the sequence of its characters
RECURSIVE Trim(_)
Trim(text) ==
    IF text = <<>> THEN <<>>
    ELSE IF text[1] = " " THEN Trim(SubSeq(text, 2, Len(text)))
    ELSE IF text[Len(text)] = " " THEN Trim(SubSeq(text, 1, Len(text) - 1))
    ELSE text

\* The input is taken as typed, blank or not.
submit_api_key_untrimmed(a) ==
    IF IsSome(a.api_key_popup_active)
    THEN LET set == IF a.api_key_popup_active[1] = "OpenAI"
                    THEN set_openai_client(a) ELSE set_anthropic_client(a)
         IN  <<[set EXCEPT !.api_key_popup_active = None, !.api_key_input = <<>>], TRUE>>
    ELSE <<a, FALSE>>

\* submit_api_key: <<the App afterwards, the returned bool>>
submit_api_key(a) ==
    IF IsSome(a.api_key_popup_active) /\ Trim(a.api_key_input) # <<>>
    THEN LET set == IF a.api_key_popup_active[1] = "OpenAI"
                    THEN set_openai_client(a) ELSE set_anthropic_client(a)
         IN  <<[set EXCEPT !.api_key_popup_active = None, !.api_key_input = <<>>], TRUE>>
    ELSE <<a, FALSE>>

InputChars == {" ", "k"}

\* handle_api_key_input(KeyCode::Char(c))
push_char(a, c) == [a EXCEPT !.api_key_input = Append(a.api_key_input, c)]

\* handle_api_key_input(KeyCode::Backspace)
pop_char(a) ==
    [a EXCEPT !.api_key_input =
        IF a.api_key_input = <<>> THEN <<>> ELSE SubSeq(a.api_key_input, 1, Len(a.api_key_input) - 1)]

----------------------------------------------------------------------------
(* main.rs: the main loop and spawn_fetch_task, around Arc<Mutex<App>> *)

TaskIds == 1..MaxTasks

NewTask ==
    [pc |-> "idle", force_refresh |-> FALSE, provider |-> None,
     openai_client |-> FALSE, anthropic_client |-> FALSE, result |-> None,
     \* history: what the server answered, and the provider selected at commit
     net |-> None, selected_at_commit |-> None,
     \* history, kept until the task has decided whether to fetch: the call
     \* site that spawned the task, the provider selected then, whether it had
     \* a client and no fetch yet, and whether an error of a completed fetch
     \* was stored for it
     trigger |-> "none", target |-> None, fresh_target |-> FALSE,
     error_target |-> FALSE]

CanSpawn == \E t \in TaskIds : tasks[t].pc = "idle"

\* tokio::spawn(async move { .. }): the task exists, it has not run yet
spawn_fetch_task(ts, force_refresh) ==
    LET t == CHOOSE i \in TaskIds :
                ts[i].pc = "idle" /\ \A j \in TaskIds : ts[j].pc = "idle" => i <= j
    IN  [ts EXCEPT ![t] = [NewTask EXCEPT !.pc = "spawned", !.force_refresh = force_refresh]]

\* a fetch of the provider was started by some task
FetchStarted(ts, provider) ==
    \E t \in TaskIds :
        /\ ts[t].provider = Some(provider)
        /\ ts[t].pc \in {"fetching", "returned", "commit", "done"}

\* the call site of spawn_fetch_task and the App it leaves (the guard is
\* dropped right before the call), kept with the task it spawned
Triggered(old, new, trigger, a) ==
    LET t == CHOOSE i \in TaskIds : old[i].pc = "idle" /\ new[i].pc = "spawned"
        provider == current_provider(a)
    IN  [new EXCEPT ![t].trigger = trigger,
                    ![t].target = Some(provider),
                    ![t].fresh_target = has_client(a, provider) /\ ~FetchStarted(old, provider),
                    ![t].error_target =
                        (IF provider = "OpenAI" THEN a.openai_errors
                                                ELSE a.anthropic_errors) # NoErrors]

\* what the servers answer while the App is running
AppNets(provider) ==
    IF provider = "OpenAI" THEN
        { [costs |-> Ok(OpenAICostBuckets),
           subs |-> <<Ok(<<OpenAIUsageBucket("completions")>>),
                      Ok(<<OpenAIUsageBucket("embeddings")>>), Ok(<<>>)>>,
           projects |-> Ok(<<Ok(<<[id |-> "key_a", name |-> "prod"]>>)>>)],
          [costs |-> Ok(<<OpenAICostBuckets[2]>>),
           subs |-> <<Err(PageErrorText("completions", "http_error")),
                      Ok(<<OpenAIUsageBucket("embeddings")>>), Ok(<<>>)>>,
           projects |-> Ok(<<>>)],
          [costs |-> Err(PageErrorText("costs", "http_error")),
           subs |-> <<Ok(<<OpenAIUsageBucket("completions")>>), Ok(<<>>), Ok(<<>>)>>,
           projects |-> Err("API error: 500 Internal Server Error - body")],
          [costs |-> Ok(<<OpenAICostBuckets[1]>>),
           subs |-> <<Err(PageErrorText("completions", "http_error")),
                      Err(PageErrorText("embeddings", "http_error")),
                      Err(PageErrorText("images", "http_error"))>>,
           projects |-> Ok(<<>>)] }
    ELSE
        { [costs |-> Ok(AnthropicCostBuckets), usage |-> Ok(AnthropicUsageBuckets),
           lookups |-> [id \in {"key_a"} |-> Ok("prod")]],
          [costs |-> Err(PageErrorText("cost_report", "http_error")),
           usage |-> Err(PageErrorText("usage_report", "http_error")),
           lookups |-> <<>>] }

\* `!app_lock.data.openai.is_empty()` / `!app_lock.data.anthropic.is_empty()`
data_exists(a, provider) ==
    IF provider = "OpenAI" THEN a.data.openai # <<>> ELSE a.data.anthropic # <<>>

\* app_lock.loading = true; the provider's errors = ProviderErrors::default()
mark_loading(a, provider) ==
    IF provider = "OpenAI"
    THEN [a EXCEPT !.loading = TRUE, !.openai_errors = NoErrors]
    ELSE [a EXCEPT !.loading = TRUE, !.anthropic_errors = NoErrors]

\* The task keeps the guard while it fetches.
lock_kept_by_task(t) == Some(t)

\* the end of the block that holds app_lock: the guard is dropped
lock_after_snapshot(t) == None

\* The result goes to whatever provider is selected when the fetch returns.
commit_to_selected(a, task) == a.selected_provider

\* `match provider`: the provider the task read when it started
commit_provider(a, task) == task.provider[1]

\* The fetched records are added to the stored ones.
merged_records(old, new) == old \o new

\* `app_lock.data.openai = openai`
replaced_records(old, new) == new

\* the App after the task has stored its FetchOutcome
commit_outcome(a, task) ==
    LET out == task.result[1]
        stored ==
            IF commit_provider(a, task) = "OpenAI"
            THEN [a EXCEPT !.data.openai = replaced_records(a.data.openai, out.cost_data),
                           !.data.openai_usage =
                                replaced_records(a.data.openai_usage, out.usage_data),
                           !.data.openai_api_key_names = out.api_key_names,
                           !.openai_errors = out.errors]
            ELSE [a EXCEPT !.data.anthropic = replaced_records(a.data.anthropic, out.cost_data),
                           !.data.anthropic_usage =
                                replaced_records(a.data.anthropic_usage, out.usage_data),
                           !.data.anthropic_api_key_names = out.api_key_names,
                           !.anthropic_errors = out.errors]
    IN  [stored EXCEPT !.loading = FALSE]

\* main is at `at` in a pass of its loop; ui holds its position: "top"
\* before the first block, "render" before the draw, "poll" in event::poll,
\* "exited" after the break
MainAt(at) == running /\ ui.pc = at

\* `let mut app_lock = app.lock().await;` in main: the lock is free
MainHoldsLock == lock = None

\* the first block of a pass of the loop: a selected provider without a
\* client gets the popup
loop_top(a) ==
    IF ~has_client(a, current_provider(a)) /\ a.api_key_popup_active = None
    THEN show_api_key_popup(a, current_provider(a))
    ELSE a

\* `let popup_active = app_lock.api_key_popup_active.is_some();`
popup_active == IsSome(app.api_key_popup_active)

\* the first block of the pass, under the lock
LoopTop ==
    /\ MainAt("top")
    /\ MainHoldsLock
    /\ app' = loop_top(app)
    /\ ui' = [ui EXCEPT !.pc = "render"]
    /\ UNCHANGED <<pg, agg, lock, tasks, running>>

\* the frame is drawn under the lock; the animation frame it counts is not
\* part of the App of the model
LoopRender ==
    /\ MainAt("render")
    /\ MainHoldsLock
    /\ ui' = [ui EXCEPT !.pc = "poll"]
    /\ UNCHANGED <<pg, agg, app, lock, tasks, running>>

\* event::poll times out, or the key is one that no arm acts on
PollTimeout ==
    /\ MainAt("poll")
    /\ ui' = [ui EXCEPT !.pc = "top"]
    /\ UNCHANGED <<pg, agg, app, lock, tasks, running>>

\* KeyCode::Left | KeyCode::Right
KeyLeftRight ==
    /\ MainAt("poll")
    /\ MainHoldsLock
    /\ \E delta \in {-1, 1} : app' = move_options_column(app, delta)
    /\ ui' = [ui EXCEPT !.pc = "top"]
    /\ UNCHANGED <<pg, agg, lock, tasks, running>>

\* KeyCode::Up | KeyCode::Down
KeyUpDown ==
    /\ MainAt("poll")
    /\ MainHoldsLock
    /\ \E delta \in {-1, 1} :
        LET moved == move_column_cursor(app, delta)
            provider_changed == current_provider(app) # current_provider(moved)
            new_provider == current_provider(moved)
        IN  IF provider_changed
            THEN /\ CanSpawn
                 /\ app' = IF ~has_client(moved, new_provider)
                           THEN show_api_key_popup(moved, new_provider)
                           ELSE cancel_api_key_popup(moved)
                 /\ tasks' = Triggered(tasks, spawn_fetch_task(tasks, FALSE), "move", moved)
            ELSE /\ app' = moved
                 /\ UNCHANGED tasks
    /\ ui' = [ui EXCEPT !.pc = "top"]
    /\ UNCHANGED <<pg, agg, lock, running>>

\* KeyCode::Enter if popup_active
KeyEnter ==
    /\ MainAt("poll")
    /\ MainHoldsLock
    /\ popup_active
    /\ LET submitted == submit_api_key(app) IN
        /\ app' = submitted[1]
        /\ IF submitted[2]
           THEN /\ CanSpawn
                /\ tasks' = Triggered(tasks, spawn_fetch_task(tasks, FALSE), "enter",
                                       submitted[1])
           ELSE UNCHANGED tasks
    /\ ui' = [ui EXCEPT !.pc = "top"]
    /\ UNCHANGED <<pg, agg, lock, running>>

\* KeyCode::Esc if popup_active
KeyEsc ==
    /\ MainAt("poll")
    /\ MainHoldsLock
    /\ popup_active
    /\ app' = cancel_api_key_popup(app)
    /\ ui' = [ui EXCEPT !.pc = "top"]
    /\ UNCHANGED <<pg, agg, lock, tasks, running>>

\* _ if popup_active, a character key
KeyChar ==
    /\ MainAt("poll")
    /\ MainHoldsLock
    /\ popup_active
    /\ Len(app.api_key_input) < MaxInput
    /\ \E c \in InputChars : app' = push_char(app, c)
    /\ ui' = [ui EXCEPT !.pc = "top"]
    /\ UNCHANGED <<pg, agg, lock, tasks, running>>

\* _ if popup_active, KeyCode::Backspace
KeyBackspace ==
    /\ MainAt("poll")
    /\ MainHoldsLock
    /\ popup_active
    /\ app.api_key_input # <<>>
    /\ app' = pop_char(app)
    /\ ui' = [ui EXCEPT !.pc = "top"]
    /\ UNCHANGED <<pg, agg, lock, tasks, running>>

\* KeyCode::Char('r') | KeyCode::Char('R'), no popup
KeyRefresh ==
    /\ MainAt("poll")
    /\ MainHoldsLock
    /\ ~popup_active
    /\ CanSpawn
    /\ tasks' = Triggered(tasks, spawn_fetch_task(tasks, TRUE), "refresh", app)
    /\ ui' = [ui EXCEPT !.pc = "top"]
    /\ UNCHANGED <<pg, agg, app, lock, running>>

\* KeyCode::Char('q') | KeyCode::Char('Q'), no popup: break.  The loop is
\* left; the tasks go on.
KeyQuit ==
    /\ MainAt("poll")
    /\ MainHoldsLock
    /\ ~popup_active
    /\ ui' = [ui EXCEPT !.pc = "exited"]
    /\ UNCHANGED <<pg, agg, app, lock, tasks, running>>

\* the terminal is restored and main returns: the runtime shuts down.  A
\* task a worker still polls goes on; a task that waits is dropped
MainReturn ==
    /\ MainAt("exited")
    /\ running' = FALSE
    /\ UNCHANGED <<ui, pg, agg, app, lock, tasks>>

\* the shutdown of the runtime drops a task that is not being polled: one
\* that has not run, waits for the network or waits to be polled again; a
\* task that holds the lock is in a poll and ends it
TaskDropped(t) ==
    /\ ~running
    /\ tasks[t].pc \in {"spawned", "fetching", "returned"}
    /\ tasks' = [tasks EXCEPT ![t].pc = "dropped"]
    /\ UNCHANGED <<ui, pg, agg, app, lock, running>>

\* `let mut app_lock = app.lock().await;` at the start of the task
TaskLock(t) ==
    /\ tasks[t].pc = "spawned"
    /\ lock = None
    /\ lock' = Some(t)
    /\ tasks' = [tasks EXCEPT ![t].pc = "snapshot"]
    /\ UNCHANGED <<ui, pg, agg, app, running>>

\* the first block of the task, under the lock; a task that returns without
\* fetching has ended and leaves its slot
TaskSnapshot(t) ==
    /\ tasks[t].pc = "snapshot"
    /\ LET provider == current_provider(app)
           should_fetch == ~data_exists(app, provider) \/ tasks[t].force_refresh
       IN  IF ~has_client(app, provider)
           THEN /\ tasks' = [tasks EXCEPT ![t] = NewTask]
                /\ lock' = None
                /\ UNCHANGED app
           ELSE /\ app' = IF should_fetch THEN mark_loading(app, provider) ELSE app
                /\ tasks' = IF should_fetch
                            THEN [tasks EXCEPT ![t] =
                                    [NewTask EXCEPT
                                        !.pc = "fetching",
                                        !.force_refresh = tasks[t].force_refresh,
                                        !.provider = Some(provider),
                                        !.openai_client = app.openai_client,
                                        !.anthropic_client = app.anthropic_client]]
                            ELSE [tasks EXCEPT ![t] = NewTask]
                /\ lock' = IF should_fetch THEN lock_after_snapshot(t) ELSE None
    /\ UNCHANGED <<ui, pg, agg, running>>

\* `handle.await` of a spawned lookup that the shutdown of the runtime
\* cancelled: Err(JoinError), which `if let Ok(..) = handle.await` skips
JoinCancelled == Err("task was cancelled")

\* what the awaited calls of fetch_data return: while main has not returned
\* what the server answers; during the shutdown each lookup spawned with
\* tokio::spawn (one per project for OpenAI, one per key id for Anthropic)
\* returns its answer or is cancelled
AwaitedResults(provider, net) ==
    IF running THEN {net}
    ELSE IF provider = "OpenAI"
    THEN IF ~net.projects.ok THEN {net}
         ELSE { [net EXCEPT !.projects = Ok([i \in DOMAIN net.projects.val |->
                                IF i \in cancelled THEN JoinCancelled
                                ELSE net.projects.val[i]])] :
                    cancelled \in SUBSET DOMAIN net.projects.val }
    ELSE { [net EXCEPT !.lookups = [id \in DOMAIN net.lookups |->
                                IF id \in cancelled THEN JoinCancelled
                                ELSE net.lookups[id]]] :
                cancelled \in SUBSET DOMAIN net.lookups }

\* app::fetch_data(provider, openai_client, anthropic_client).await returns
FetchReturn(t) ==
    /\ tasks[t].pc = "fetching"
    /\ \E net \in AppNets(tasks[t].provider[1]) :
        \E awaited \in AwaitedResults(tasks[t].provider[1], net) :
            tasks' = [tasks EXCEPT
                        ![t].pc = "returned",
                        ![t].net = Some(awaited),
                        ![t].result = Some(fetch_data(tasks[t].provider[1],
                                                      tasks[t].openai_client,
                                                      tasks[t].anthropic_client, awaited))]
    /\ UNCHANGED <<ui, pg, agg, app, lock, running>>

\* `let mut app_lock = app.lock().await;` after the fetch
TaskRelock(t) ==
    /\ tasks[t].pc = "returned"
    /\ lock = None
    /\ lock' = Some(t)
    /\ tasks' = [tasks EXCEPT ![t].pc = "commit"]
    /\ UNCHANGED <<ui, pg, agg, app, running>>

\* the task stores the outcome and ends
TaskCommit(t) ==
    /\ tasks[t].pc = "commit"
    /\ app' = commit_outcome(app, tasks[t])
    /\ tasks' = [tasks EXCEPT ![t].pc = "done",
                              ![t].selected_at_commit = Some(app.selected_provider)]
    /\ lock' = None
    /\ UNCHANGED <<ui, pg, agg, running>>

\* main: the clients the environment variables give, then the first task
Init ==
    /\ \E openai_key, anthropic_key \in BOOLEAN :
        app = LET a1 == IF openai_key THEN set_openai_client(NewApp) ELSE NewApp
              IN  IF anthropic_key THEN set_anthropic_client(a1) ELSE a1
    /\ tasks = LET none == [t \in TaskIds |-> NewTask]
              IN  Triggered(none, spawn_fetch_task(none, FALSE), "launch", app)
    /\ lock = None
    /\ running = TRUE
    /\ pg = None
    /\ agg = None
    /\ ui = [pc |-> "top"]

Next ==
    \/ LoopTop
    \/ LoopRender
    \/ PollTimeout
    \/ KeyLeftRight
    \/ KeyUpDown
    \/ KeyEnter
    \/ KeyEsc
    \/ KeyChar
    \/ KeyBackspace
    \/ KeyRefresh
    \/ KeyQuit
    \/ MainReturn
    \/ \E t \in TaskIds :
        \/ TaskLock(t)
        \/ TaskSnapshot(t)
        \/ FetchReturn(t)
        \/ TaskRelock(t)
        \/ TaskCommit(t)
        \/ TaskDropped(t)

Spec == Init /\ [][Next]_vars

----------------------------------------------------------------------------
(* ui/content/shared.rs: vertical_bar_layout, and the stored chart scroll *)
(* of a provider through the render passes (ui/content/cost.rs)           *)

\* Dates a chart may have, and columns its area may have.
MaxBars == 6
MaxWidth == 20
\* Rows a chart area may have.
MaxRows == 4
\* Scroll inputs followed beyond the ends of the chart.
MaxScrolls == 1

VERTICAL_BAR_SPACING == 1
MAX_BAR_WIDTH == 16
\* `let min_bar_width: u16 = 5;`
MIN_BAR_WIDTH == 5
HORIZONTAL_SCROLLBAR_HEIGHT == 1
\* usize::MAX; the model's usize is 31 bits wide, and only min and the
\* saturating operations are applied to a scroll offset
USIZE_MAX == 2147483647

Min(a, b) == IF a <= b THEN a ELSE b
Max(a, b) == IF a >= b THEN a ELSE b

\* The width is not capped at MAX_BAR_WIDTH.
BarWidthUncapped(available_width, visible, area_width) ==
    Min(Max(available_width \div visible, MIN_BAR_WIDTH), area_width)

\* (available_width / visible).max(min_bar_width).min(area_width).min(MAX_BAR_WIDTH)
BarWidth(available_width, visible, area_width) ==
    Min(Min(Max(available_width \div visible, MIN_BAR_WIDTH), area_width), MAX_BAR_WIDTH)

\* The scroll offset is used as it comes.
StartIndexUnclamped(total_bars, visible, scroll_offset) == scroll_offset

\* scroll_offset.min(total_bars.saturating_sub(visible))
StartIndex(total_bars, visible, scroll_offset) ==
    Min(scroll_offset, Max(total_bars - visible, 0))

RECURSIVE LayoutSearch(_, _, _, _)
\* `while visible > 0 { .. }`
LayoutSearch(total_bars, area_width, scroll_offset, visible) ==
    IF visible = 0 THEN None
    ELSE LET total_spacing == IF visible > 1 THEN (visible - 1) * VERTICAL_BAR_SPACING ELSE 0 IN
         IF area_width <= total_spacing
         THEN LayoutSearch(total_bars, area_width, scroll_offset, visible - 1)
         ELSE LET available_width == area_width - total_spacing
                  bar_width == BarWidth(available_width, visible, area_width)
                  required == visible * bar_width + total_spacing
              IN  IF required <= area_width
                  THEN Some([start_index |-> StartIndex(total_bars, visible, scroll_offset),
                             visible_bars |-> visible,
                             bar_width |-> bar_width,
                             spacing |-> VERTICAL_BAR_SPACING,
                             offset |-> (area_width - required) \div 2])
                  ELSE LayoutSearch(total_bars, area_width, scroll_offset, visible - 1)

vertical_bar_layout(total_bars, area_width, scroll_offset) ==
    IF total_bars = 0 \/ area_width = 0 THEN None
    ELSE LayoutSearch(total_bars, area_width, scroll_offset, Min(total_bars, area_width))

\* ProviderInfo::new(): cost_chart_scroll = usize::MAX, nothing rendered yet
NewChart ==
    [chart_scroll |-> USIZE_MAX, rendered |-> FALSE,
     total_bars |-> 0, area_width |-> 0, area_height |-> 0,
     scroll_offset |-> 0, layout |-> None]

\* chart_area.height less label_height, value_label_height and
\* scrollbar_height, each subtraction saturating
bar_area_height_of(area_height) ==
    Max(Max(Max(area_height - 1, 0) - 1, 0) - HORIZONTAL_SCROLLBAR_HEIGHT, 0)

\* render_cost_chart and render_vertical_cost_bars up to the layout: no
\* dates, no columns or no row for the bars give None before the layout is
\* computed (max_total is at least 1.0)
render_vertical_cost_bars(total_bars, area_width, area_height, scroll_offset) ==
    IF total_bars = 0 THEN None
    ELSE IF area_width = 0 \/ area_height <= 1 THEN None
    ELSE IF bar_area_height_of(area_height) = 0 THEN None
    ELSE vertical_bar_layout(total_bars, area_width, scroll_offset)

\* render_cost_view: the bars are drawn for the stored scroll offset; when
\* they were drawn the offset their layout used is stored back
render_chart(chart, total_bars, area_width, area_height) ==
    LET layout == render_vertical_cost_bars(total_bars, area_width, area_height,
                                            chart.chart_scroll) IN
    [chart_scroll |-> IF IsSome(layout) THEN layout[1].start_index ELSE chart.chart_scroll,
     rendered |-> TRUE,
     total_bars |-> total_bars, area_width |-> area_width, area_height |-> area_height,
     scroll_offset |-> chart.chart_scroll, layout |-> layout]

\* App::scroll_chart(delta): one bar left or right, saturating at the ends
\* of usize; the layout clamps to the last window
scroll_chart(chart, delta) ==
    [chart EXCEPT !.chart_scroll =
        IF delta < 0 THEN Max(chart.chart_scroll - 1, 0)
        ELSE Min(chart.chart_scroll, USIZE_MAX - 1) + 1]

\* a frame is drawn after the data, the filter or the range changed: the
\* chart has another number of dates
RenderChanged ==
    \E total_bars \in 0..MaxBars :
        /\ ui' = render_chart(ui, total_bars, ui.area_width, ui.area_height)
        /\ UNCHANGED <<pg, agg, app, lock, tasks, running>>

\* a frame is drawn after the terminal was resized: the chart area has
\* other columns or rows
RenderResized ==
    \E area_width \in 0..MaxWidth, area_height \in 0..MaxRows :
        /\ <<area_width, area_height>> # <<ui.area_width, ui.area_height>>
        /\ ui' = render_chart(ui, ui.total_bars, area_width, area_height)
        /\ UNCHANGED <<pg, agg, app, lock, tasks, running>>

\* KeyCode::Char('h') / KeyCode::Char('l')
KeyScroll ==
    /\ \E delta \in {-1, 1} :
        /\ ui' = scroll_chart(ui, delta)
        /\ \/ ui'.chart_scroll <= MaxBars + MaxScrolls
           \/ ui'.chart_scroll >= USIZE_MAX - MaxScrolls
    /\ UNCHANGED <<pg, agg, app, lock, tasks, running>>

InitLayout ==
    /\ ui = NewChart
    /\ pg = None
    /\ agg = None
    /\ app = None
    /\ lock = None
    /\ tasks = <<>>
    /\ running = TRUE

NextLayout == RenderChanged \/ RenderResized \/ KeyScroll

SpecLayout == InitLayout /\ [][NextLayout]_vars

----------------------------------------------------------------------------
(* ui/content: the range filter, the smart scale and the colours of a     *)
(* render pass, as functions of the records and totals they are given     *)

\* Records, totals and category fields a chart computation is given.
MaxRecords == 3
MaxTotals == 5

\* Range::SevenDays, Range::ThirtyDays
Ranges == {"SevenDays", "ThirtyDays"}
\* the ranges of the range column
RangeOrder == <<"SevenDays", "ThirtyDays">>

\* Range::days()
RangeDays(range) == IF range = "SevenDays" THEN 7 ELSE 30

RECURSIVE MaxDate(_)
\* data.iter().map(|d| d.date).max()
MaxDate(data) ==
    IF data = <<>> THEN None
    ELSE LET rest == MaxDate(Tail(data)) IN
         IF rest = None \/ Head(data).date >= rest[1] THEN Some(Head(data).date) ELSE rest

RECURSIVE KeepFrom(_, _)
\* data.iter().filter(|d| d.date >= cutoff).cloned().collect()
KeepFrom(data, cutoff) ==
    IF data = <<>> THEN <<>>
    ELSE IF Head(data).date >= cutoff
         THEN <<Head(data)>> \o KeepFrom(Tail(data), cutoff)
         ELSE KeepFrom(Tail(data), cutoff)

\* The whole range is subtracted.
RangeCutoffWholeRange(latest_date, range) == latest_date - RangeDays(range) * 86400

\* latest_date - Duration::days(range.days().saturating_sub(1))
RangeCutoff(latest_date, range) ==
    latest_date - Max(RangeDays(range) - 1, 0) * 86400

filter_cost_data_by_range(data, range) ==
    LET latest_date == MaxDate(data) IN
    IF latest_date = None THEN <<>>
    ELSE KeepFrom(data, RangeCutoff(latest_date[1], range))

filter_usage_data_by_range(data, range) ==
    LET latest_date == MaxDate(data) IN
    IF latest_date = None THEN <<>>
    ELSE KeepFrom(data, RangeCutoff(latest_date[1], range))

RECURSIVE FoldMax(_, _)
\* totals.iter().cloned().fold(acc, f64::max)
FoldMax(totals, acc) ==
    IF totals = <<>> THEN acc ELSE FoldMax(Tail(totals), Max(acc, Head(totals)))

RECURSIVE Positive(_)
\* totals.iter().cloned().filter(|&v| v > 0.0).collect()
Positive(totals) ==
    IF totals = <<>> THEN <<>>
    ELSE IF Head(totals) > 0 THEN <<Head(totals)>> \o Positive(Tail(totals))
         ELSE Positive(Tail(totals))

RECURSIVE InsertAscending(_, _)
InsertAscending(sorted, v) ==
    IF sorted = <<>> THEN <<v>>
    ELSE IF v < Head(sorted) THEN <<v>> \o sorted
         ELSE <<Head(sorted)>> \o InsertAscending(Tail(sorted), v)

RECURSIVE SortAscending(_)
\* sorted.sort_by(|a, b| a.partial_cmp(b)..)
SortAscending(values) ==
    IF values = <<>> THEN <<>>
    ELSE InsertAscending(SortAscending(SubSeq(values, 1, Len(values) - 1)), values[Len(values)])

\* The median is the reference.
MedianIndex(len) == Min(len \div 2, Max(len - 1, 0))

\* (sorted.len() as f64 * 0.75).floor() as usize, at most len - 1
P75Index(len) == Min((len * 3) \div 4, Max(len - 1, 0))

\* calculate_smart_scale: (display_max, actual_max)
calculate_smart_scale(totals) ==
    IF totals = <<>> THEN [display_max |-> 1, actual_max |-> 1]
    ELSE LET actual_max == FoldMax(totals, 0) IN
         IF actual_max <= 0 THEN [display_max |-> 1, actual_max |-> 0]
         ELSE LET sorted == SortAscending(Positive(totals)) IN
              IF sorted = <<>> THEN [display_max |-> actual_max, actual_max |-> actual_max]
              ELSE LET p75 == sorted[P75Index(Len(sorted)) + 1] IN
                   IF actual_max > p75 * 3 /\ p75 > 0
                   THEN [display_max |-> p75 * 2, actual_max |-> actual_max]
                   ELSE [display_max |-> actual_max, actual_max |-> actual_max]

\* sequences of at most n elements of S
SeqsUpTo(S, n) == UNION { [1..k -> S] : k \in 0..n }

\* the dates of the records of a provider, in seconds
InputDates == {0, 86400, 23 * 86400, 24 * 86400 - 3600, 24 * 86400, 30 * 86400}

\* per-date totals of a chart
InputTotals == {0, 10, 30, 40, 100}

\* DailyData / DailyUsageData: the date, and the place in the input as the
\* rest of the record
RecordsOf(dates) == [i \in 1..Len(dates) |-> [date |-> dates[i], id |-> i]]

\* Records of either kind a provider may have for the colours.
MaxCategories == 2

\* ColorPalette::for_provider(provider).chart_colors
chart_colors(provider) ==
    IF provider = "Anthropic"
    THEN <<"CC785C", "D4A27F", "EBDBBC", "BF4D43", "E5E4DF", "F0F0EB">>
    ELSE <<"Blue", "Cyan", "Green", "Magenta", "Yellow", "LightBlue",
           "4A90E2", "50C878", "9B59B6", "E74C3C", "F39C12", "1ABC9C", "3498DB",
           "95A5A6", "E67E22", "8E44AD", "16A085", "27AE60", "2980B9">>

\* the characters of the category keys, in the order of their bytes
Alphabet == <<" ", "a", "b", "k", "n", "o", "u", "w">>

CharRank(c) == CHOOSE i \in 1..Len(Alphabet) : Alphabet[i] = c

\* String's Ord: a < b, the strings being sequences of characters
RECURSIVE StrLess(_, _)
StrLess(a, b) ==
    IF b = <<>> THEN FALSE
    ELSE IF a = <<>> THEN TRUE
    ELSE IF Head(a) = Head(b) THEN StrLess(Tail(a), Tail(b))
    ELSE CharRank(Head(a)) < CharRank(Head(b))

\* keys().cloned().collect() followed by sort()
RECURSIVE SortedKeys(_)
SortedKeys(keys) ==
    IF keys = {} THEN <<>>
    ELSE LET least == CHOOSE k \in keys : \A other \in keys \ {k} : StrLess(k, other)
         IN  <<least>> \o SortedKeys(keys \ {least})

Unknown == <<"u", "n", "k", "n", "o", "w", "n">>

\* .as_ref().map(|s| s.trim()).filter(|s| !s.is_empty()).unwrap_or("unknown")
CategoryKey(name) ==
    IF IsSome(name) /\ Trim(name[1]) # <<>> THEN Trim(name[1]) ELSE Unknown

\* process_cost_data(data).items
cost_items(data) ==
    SortedKeys({CategoryKey(data[i].line_item) : i \in 1..Len(data)})

\* process_usage_data(data, GroupBy::Model).items
usage_items(data) ==
    SortedKeys({CategoryKey(data[i].model) : i \in 1..Len(data)})

\* process_usage_data(data, GroupBy::ApiKeys).items
usage_key_items(data) ==
    SortedKeys({CategoryKey(data[i].api_key_id) : i \in 1..Len(data)})

\* palette.chart_colors[i % palette.chart_colors.len()]
palette_color(palette, i) == palette[(i % Len(palette)) + 1]

\* items.to_vec() sorted, every (item, colour of its index) collected into
\* a HashMap: of a repeated item the last index stays.  The map is given as
\* its pairs (item, colour), the items ascending.
create_color_mapping(items, palette) ==
    LET places == 1..Len(items)
        rank(i) == Cardinality({j \in places :
                        \/ StrLess(items[j], items[i])
                        \/ items[j] = items[i] /\ j <= i})
        sorted_items == [n \in places |-> items[CHOOSE i \in places : rank(i) = n]]
        keys == SortedKeys({items[i] : i \in places})
        last(k) == CHOOSE n \in places :
                        /\ sorted_items[n] = k
                        /\ \A later \in places : later > n => sorted_items[later] # k
    IN  [n \in 1..Len(keys) |->
            [item |-> keys[n], color |-> palette_color(palette, last(keys[n]) - 1)]]

\* HashMap::get
ColorOf(mapping, item) ==
    IF \E i \in 1..Len(mapping) : mapping[i].item = item
    THEN Some(mapping[CHOOSE i \in 1..Len(mapping) : mapping[i].item = item].color)
    ELSE None

\* render_cost_view: all_item_colors
cost_chart_colors(data, range, provider) ==
    create_color_mapping(cost_items(filter_cost_data_by_range(data, range)),
                         chart_colors(provider))

\* render_usage_view: all_item_colors, of the items of app.group_by
usage_chart_colors(data, range, group_by, provider) ==
    LET in_range == filter_usage_data_by_range(data, range)
        items == IF group_by = "Model" THEN usage_items(in_range)
                 ELSE usage_key_items(in_range)
    IN  create_color_mapping(items, chart_colors(provider))

\* the line item after .map(|s| s.trim()).filter(|s| !s.is_empty())
TrimmedName(name) ==
    IF IsSome(name) /\ Trim(name[1]) # <<>> THEN Some(Trim(name[1])) ELSE None

RECURSIVE KeepLineItem(_, _)
\* data.iter().filter(..map(|s| s == filter.as_str()).unwrap_or(false)).cloned().collect()
KeepLineItem(data, filter) ==
    IF data = <<>> THEN <<>>
    ELSE LET name == TrimmedName(Head(data).line_item)
             rest == KeepLineItem(Tail(data), filter)
         IN  IF IsSome(name) /\ name[1] = filter THEN <<Head(data)>> \o rest ELSE rest

\* apply_model_filter(data, selected_filter)
apply_model_filter(data, selected_filter) ==
    IF IsSome(selected_filter) THEN KeepLineItem(data, selected_filter[1]) ELSE data

\* the month and the day of the month of a UTC timestamp (proleptic
\* Gregorian calendar, days counted from 0000-03-01)
MonthDay(date) ==
    LET z == (date \div 86400) + 719468
        era == z \div 146097
        doe == z - era * 146097
        yoe == (doe - doe \div 1460 + doe \div 36524 - doe \div 146096) \div 365
        doy == doe - (365 * yoe + yoe \div 4 - yoe \div 100)
        mp == (5 * doy + 2) \div 153
    IN  <<IF mp < 10 THEN mp + 3 ELSE mp - 9, doy - (153 * mp + 2) \div 5 + 1>>

\* d.date.format("%m/%d"): two digits each, so that the strings are ordered
\* as the pairs <<month, day>> are
date_str(date) == MonthDay(date)

\* String's Ord on "%m/%d" strings
DateStrLess(a, b) == a[1] < b[1] \/ (a[1] = b[1] /\ a[2] < b[2])

\* daily_costs.keys().cloned().collect() followed by sort()
RECURSIVE SortedDateStrs(_)
SortedDateStrs(strs) ==
    IF strs = {} THEN <<>>
    ELSE LET least == CHOOSE d \in strs : \A other \in strs \ {d} : DateStrLess(d, other)
         IN  <<least>> \o SortedDateStrs(strs \ {least})

\* the costs added to daily_costs[date][item] while the records are read
RECURSIVE AddedCost(_, _, _)
AddedCost(data, date, item) ==
    IF data = <<>> THEN 0
    ELSE AddedCost(Tail(data), date, item)
            + (IF date_str(Head(data).date) = date /\ CategoryKey(Head(data).line_item) = item
               THEN Head(data).cost ELSE 0)

\* process_cost_data(data): an entry of daily_costs is made for the date and
\* the line item of every record read
process_cost_data(data) ==
    LET strs == {date_str(data[i].date) : i \in 1..Len(data)}
        items_on(date) == {CategoryKey(data[i].line_item) :
                                i \in {k \in 1..Len(data) : date_str(data[k].date) = date}}
    IN  [daily_costs |-> [date \in strs |->
                            [item \in items_on(date) |-> AddedCost(data, date, item)]],
         dates |-> SortedDateStrs(strs),
         items |-> cost_items(data)]

\* the start times of the cost buckets: 2023-12-30, noon of 2023-12-31,
\* 2024-01-01
InputStartTimes == {19721 * 86400, 19722 * 86400 + 43200, 19723 * 86400}

\* amounts in hundredths of a dollar
InputAmounts == {0, 5}

\* cost buckets of one result each
CostBucketsOf(results) ==
    [i \in 1..Len(results) |->
        [start_time |-> results[i][1],
         results |-> <<[amount |-> results[i][2], line_item |-> results[i][3]]>>]]

\* Days a summarized record set may span.
MaxDays == 10

\* the cutoff a whole range before the latest date
range_cutoff_whole_range(range, latest) == latest - RangeDays(range) * 86400

\* range_cutoff(range, latest)
range_cutoff(range, latest) == latest - Max(RangeDays(range) - 1, 0) * 86400

RECURSIVE SumCosts(_)
\* filtered.iter().map(|d| d.cost).sum()
SumCosts(data) == IF data = <<>> THEN 0 ELSE Head(data).cost + SumCosts(Tail(data))

RECURSIVE MinDate(_)
\* filtered.iter().map(|d| d.date).min().unwrap()
MinDate(data) ==
    IF Len(data) = 1 THEN Head(data).date ELSE Min(Head(data).date, MinDate(Tail(data)))

\* summarize_cost(data, range, selected_filter, group_by)
summarize_cost(data, range, selected_filter, group_by) ==
    IF data = <<>> THEN [total |-> 0, bounds |-> None]
    ELSE LET in_range == KeepFrom(data, range_cutoff(range, MaxDate(data)[1]))
             filtered == IF IsSome(selected_filter) /\ group_by = "Model"
                         THEN KeepLineItem(in_range, selected_filter[1])
                         ELSE in_range
         IN  IF filtered = <<>> THEN [total |-> 0, bounds |-> None]
             ELSE [total |-> SumCosts(filtered),
                   bounds |-> Some(<<MinDate(filtered), MaxDate(filtered)[1]>>)]

\* summary::render: the total, in hundredths of a dollar, and the average
\* per day of the range, total_cost / range_days, kept as the quotient
\* num / den of hundredths
cost_summary(data, range, current_view, selected_filter) ==
    LET cost_filter == IF current_view = "Cost" THEN selected_filter ELSE None
        summary == summarize_cost(data, range, cost_filter, "Model")
        range_days == Max(RangeDays(range), 1)
    IN  [total_cost |-> summary.total,
         cost_bounds |-> summary.bounds,
         avg_cost_per_day |-> [num |-> summary.total, den |-> range_days]]

Gpt4 == <<"g", "p", "t", "-", "4">>
Gpt35 == <<"g", "p", "t", "-", "3", ".", "5">>

\* cost records of consecutive days: gpt-4 at 5.00 and gpt-3.5 at 1.00 a day
DailyCosts(days) ==
    Flatten([day \in 1..days |->
                <<[date |-> day * 86400, cost |-> 500, line_item |-> Some(Gpt4)],
                  [date |-> day * 86400, cost |-> 100, line_item |-> Some(Gpt35)]>>])

\* Categories a bar may have, and rows its area may have.
MaxSegments == 3
MaxHeight == 10

\* The f64 of the heights. Values, totals, scales and rows are whole numbers
\* below 2^12, each of them an f64; a quotient or product of them is the
\* nearest f64, ties to the even significand. An f64 is sig * 2^exp with
\* 2^52 <= sig < 2^53, sig kept in limbs of 13 bits, the lowest first.
SigBits == 53
U16_MAX == 65535

RECURSIVE Pow2(_)
Pow2(k) == IF k = 0 THEN 1 ELSE 2 * Pow2(k - 1)

RECURSIVE BitLen(_)
\* the bits of a whole number
BitLen(n) == IF n = 0 THEN 0 ELSE 1 + BitLen(n \div 2)

LimbBase == Pow2(13)
LimbBits == BitLen(LimbBase - 1)

RECURSIVE LimbsTrim(_)
\* limbs without zero limbs at the high end
LimbsTrim(x) ==
    IF x = <<>> \/ x[Len(x)] # 0 THEN x ELSE LimbsTrim(SubSeq(x, 1, Len(x) - 1))

\* the bits of a significand
LimbsBitLen(x) ==
    LET t == LimbsTrim(x)
    IN  IF t = <<>> THEN 0 ELSE LimbBits * (Len(t) - 1) + BitLen(t[Len(t)])

RECURSIVE LimbsMulFrom(_, _, _, _)
LimbsMulFrom(x, n, i, carry) ==
    IF i > Len(x) THEN (IF carry = 0 THEN <<>> ELSE <<carry>>)
    ELSE LET p == x[i] * n + carry
         IN  <<p % LimbBase>> \o LimbsMulFrom(x, n, i + 1, p \div LimbBase)

\* x * n, n at most LimbBase
LimbsMul(x, n) == LimbsMulFrom(x, n, 1, 0)

RECURSIVE LimbsDivFrom(_, _, _, _)
LimbsDivFrom(x, n, i, rem) ==
    IF i = 0 THEN [quot |-> <<>>, rem |-> rem]
    ELSE LET cur == rem * LimbBase + x[i]
             low == LimbsDivFrom(x, n, i - 1, cur % n)
         IN  [quot |-> low.quot \o <<cur \div n>>, rem |-> low.rem]

\* x \div n and x % n, n at most LimbBase
LimbsDiv(x, n) ==
    LET d == LimbsDivFrom(x, n, Len(x), 0)
    IN  [quot |-> LimbsTrim(d.quot), rem |-> d.rem]

RECURSIVE LimbsShl(_, _)
\* x * 2^k
LimbsShl(x, k) ==
    IF k >= LimbBits THEN <<0>> \o LimbsShl(x, k - LimbBits) ELSE LimbsMul(x, Pow2(k))

RECURSIVE LimbsShr(_, _)
\* x \div 2^k
LimbsShr(x, k) ==
    IF x = <<>> THEN <<>>
    ELSE IF k >= LimbBits THEN LimbsShr(Tail(x), k - LimbBits)
    ELSE LimbsDiv(x, Pow2(k)).quot

RECURSIVE LimbsInc(_)
\* x + 1
LimbsInc(x) ==
    IF x = <<>> THEN <<1>>
    ELSE IF Head(x) + 1 < LimbBase THEN <<Head(x) + 1>> \o Tail(x)
    ELSE <<0>> \o LimbsInc(Tail(x))

RECURSIVE LimbsToInt(_)
\* the whole number of a few limbs
LimbsToInt(x) == IF x = <<>> THEN 0 ELSE Head(x) + LimbBase * LimbsToInt(Tail(x))

\* the nearest f64 of (x + a fraction) * 2^exp for x of SigBits bits or more,
\* ties to even; sticky says that the fraction is not zero
F64Nearest(x, exp, sticky) ==
    LET drop == LimbsBitLen(x) - SigBits IN
    IF drop = 0 THEN [sig |-> LimbsTrim(x), exp |-> exp]
    ELSE LET d == LimbsDiv(x, Pow2(drop))
             half == Pow2(drop - 1)
             up == \/ d.rem > half
                   \/ d.rem = half /\ (sticky \/ d.quot[1] % 2 = 1)
             sig == IF up THEN LimbsInc(d.quot) ELSE d.quot
         IN  IF LimbsBitLen(sig) > SigBits
             THEN [sig |-> LimbsShr(sig, 1), exp |-> exp + drop + 1]
             ELSE [sig |-> sig, exp |-> exp + drop]

\* n as f64, n a positive whole number
F64FromInt(n) ==
    [sig |-> LimbsShl(<<n>>, SigBits - BitLen(n)), exp |-> BitLen(n) - SigBits]

\* x * (n as f64)
F64MulInt(x, n) == F64Nearest(LimbsMul(x.sig, n), x.exp, FALSE)

\* x / (n as f64)
F64DivInt(x, n) ==
    LET k == BitLen(n) + 1
        d == LimbsDiv(LimbsMul(x.sig, Pow2(k)), n)
    IN  F64Nearest(d.quot, x.exp - k, d.rem # 0)

\* x.round() as u16: halves go away from zero and the cast saturates
F64RoundU16(x) ==
    IF x.exp > 16 - SigBits THEN U16_MAX
    ELSE IF -x.exp > SigBits THEN 0
    ELSE Min((LimbsToInt(LimbsShr(x.sig, -x.exp - 1)) + 1) \div 2, U16_MAX)

\* ((display_value / scale_max) * bar_area_height as f64).round() as u16,
\* display_value being value * (scale_max / total) in a capped bar
RoundedShare(value, total, scale_max, bar_area_height) ==
    LET display_value == IF total > scale_max
                         THEN F64MulInt(F64DivInt(F64FromInt(scale_max), total), value)
                         ELSE F64FromInt(value)
    IN  F64RoundU16(F64MulInt(F64DivInt(display_value, scale_max), bar_area_height))

\* the rounded share of the bar area, at least one row, not cut to the rows
\* that remain
SegmentHeightUncut(value, total, scale_max, bar_area_height, remaining) ==
    Max(RoundedShare(value, total, scale_max, bar_area_height), 1)

\* segment_height of a positive value: the rounded share of the bar area, at
\* least one row, at most the rows that remain
SegmentHeight(value, total, scale_max, bar_area_height, remaining) ==
    Min(Max(RoundedShare(value, total, scale_max, bar_area_height), 1), remaining)

\* `for item in items`: the heights of the segments from the bottom, 0 for
\* an item without a segment
RECURSIVE StackSegments(_, _, _, _, _)
StackSegments(values, total, scale_max, bar_area_height, used_height) ==
    IF values = <<>> THEN <<>>
    ELSE IF Head(values) <= 0
    THEN <<0>> \o StackSegments(Tail(values), total, scale_max, bar_area_height, used_height)
    ELSE LET remaining == Max(bar_area_height - used_height, 0) IN
         IF remaining = 0 THEN [i \in 1..Len(values) |-> 0]
         ELSE LET segment_height ==
                    SegmentHeight(Head(values), total, scale_max, bar_area_height, remaining)
              IN  <<segment_height>>
                    \o StackSegments(Tail(values), total, scale_max, bar_area_height,
                                     used_height + segment_height)

RECURSIVE SumOf(_)
\* iter().sum()
SumOf(values) == IF values = <<>> THEN 0 ELSE Head(values) + SumOf(Tail(values))

\* the scale of the bars: shared::render_vertical_stacked_bars takes the
\* display_max of the smart scale, render_vertical_cost_bars the largest total
scale_of(renderer, totals) ==
    IF renderer = "shared" THEN Max(calculate_smart_scale(totals).display_max, 1)
    ELSE Max(FoldMax(totals, 0), 1)

\* the bar of the last date of the chart: its total, the scale and the
\* heights of its segments
render_bar(renderer, other_totals, values, bar_area_height) ==
    LET total == SumOf(values)
        scale_max == scale_of(renderer, other_totals \o <<total>>)
    IN  [total |-> total, scale_max |-> scale_max,
         heights |-> StackSegments(values, total, scale_max, bar_area_height, 0)]

\* the values of the categories on a date, and the totals of the other dates
InputValues == {0, 1, 5, 33}
OtherTotals == {<<>>, <<1, 1, 1, 1>>, <<10, 10, 10, 10>>}

\* line items and models as they arrive
InputKeys == {None, Some(<<" ">>), Some(<<"a">>), Some(<<"b">>), Some(<<"b", " ">>)}

\* line items and models of the records a fetch brings
FetchedKeys == {None, Some(<<"a">>), Some(<<"b">>)}

\* the errors a fetch leaves: none, a failed cost call, a failed usage call
\* or key-name lookup, both
FetchedErrors ==
    {NoErrors, [cost |-> Some("cost"), usage |-> None],
     [cost |-> None, usage |-> Some("usage")],
     [cost |-> Some("cost"), usage |-> Some("usage")]}

CostRecordsOf(line_items) ==
    [i \in 1..Len(line_items) |-> [date |-> 0, line_item |-> line_items[i]]]

\* usage records of one API key
UsageRecordsOf(models) ==
    [i \in 1..Len(models) |->
        [date |-> 0, model |-> models[i], api_key_id |-> Some(<<"k">>)]]

InitChart ==
    /\ ui \in { [pc |-> "range", view |-> view, data |-> RecordsOf(dates), range |-> range,
                 first |-> None, second |-> None]
                    : dates \in SeqsUpTo(InputDates, MaxRecords), range \in Ranges,
                      view \in {"Cost", "Usage"} }
          \cup { [pc |-> "scale", totals |-> totals, scale |-> None]
                    : totals \in SeqsUpTo(InputTotals, MaxTotals) }
          \cup { [pc |-> "colors", provider |-> provider, has_client |-> with_client,
                 range |-> "SevenDays", current_view |-> "Usage", group_by |-> "Model",
                 cost |-> <<>>, usage |-> <<>>, errors |-> NoErrors,
                 cost_colors |-> None, usage_colors |-> None]
                    : provider \in Providers, with_client \in BOOLEAN }
          \cup { [pc |-> "totals", range |-> range, buckets |-> CostBucketsOf(results),
                 cost |-> None, chart |-> None]
                    : range \in Ranges,
                      results \in SeqsUpTo(InputStartTimes \X InputAmounts
                                              \X {None, Some(<<"a">>)}, MaxRecords) }
          \cup { [pc |-> "summary", range |-> range, cost |-> DailyCosts(days),
                 has_usage |-> has_usage, loading |-> loading,
                 current_view |-> view, selected_filter |-> filter, summary |-> None]
                    : range \in Ranges, days \in 0..MaxDays, view \in {"Cost", "Usage"},
                      filter \in {None, Some(Gpt4), Some(Gpt35)},
                      has_usage \in BOOLEAN, loading \in BOOLEAN }
          \cup { [pc |-> "bar", renderer |-> renderer, other_totals |-> others,
                 values |-> values, bar_area_height |-> height, bar |-> None]
                    : renderer \in {"shared", "cost"}, others \in OtherTotals,
                      values \in SeqsUpTo(InputValues, MaxSegments) \ {<<>>},
                      height \in 1..MaxHeight }
          \cup { [pc |-> "filter", range |-> range, cost |-> CostRecordsOf(line_items),
                 selected_filter |-> None, filtered |-> None]
                    : range \in Ranges,
                      line_items \in SeqsUpTo(InputKeys, MaxCategories) }
    /\ pg = None
    /\ agg = None
    /\ app = None
    /\ lock = None
    /\ tasks = <<>>
    /\ running = TRUE

\* the records of the view in the window of the range
filter_by_range(view, data, range) ==
    IF view = "Cost" THEN filter_cost_data_by_range(data, range)
    ELSE filter_usage_data_by_range(data, range)

\* render_cost_view / render_usage_view: the range filter on the records
FilterRange ==
    /\ ui.pc = "range"
    /\ ui' = [ui EXCEPT !.pc = "filtered",
                        !.first = Some(filter_by_range(ui.view, ui.data, ui.range))]
    /\ UNCHANGED <<pg, agg, app, lock, tasks, running>>

\* the range filter applied to what it returned
FilterRangeAgain ==
    /\ ui.pc = "filtered"
    /\ ui' = [ui EXCEPT !.pc = "ranged",
                        !.second = Some(filter_by_range(ui.view, ui.first[1], ui.range))]
    /\ UNCHANGED <<pg, agg, app, lock, tasks, running>>

\* render_vertical_stacked_bars: the scale of the totals
SmartScale ==
    /\ ui.pc = "scale"
    /\ ui' = [ui EXCEPT !.pc = "scaled", !.scale = Some(calculate_smart_scale(ui.totals))]
    /\ UNCHANGED <<pg, agg, app, lock, tasks, running>>

\* render_cost_view up to all_item_colors: an error of the cost data, a
\* provider without client or no record in the range end the frame before
\* any colour is assigned
cost_view_colors(c) ==
    IF IsSome(c.errors.cost) THEN None
    ELSE IF ~c.has_client THEN None
    ELSE IF filter_cost_data_by_range(c.cost, c.range) = <<>> THEN None
    ELSE Some(cost_chart_colors(c.cost, c.range, c.provider))

\* render_usage_view up to all_item_colors: an error of the usage data, a
\* provider without client or no usage record end the frame before any
\* colour is assigned
usage_view_colors(c) ==
    IF IsSome(c.errors.usage) THEN None
    ELSE IF ~c.has_client THEN None
    ELSE IF c.usage = <<>> THEN None
    ELSE Some(usage_chart_colors(c.usage, c.range, c.group_by, c.provider))

\* content::render: the frame of the current view is drawn.  cost_colors
\* and usage_colors keep the colours of the last frame of each view that was
\* drawn from the records, the range and the group-by of the state.
RenderColors ==
    /\ ui.pc = "colors"
    /\ ui' = IF ui.current_view = "Cost"
             THEN [ui EXCEPT !.cost_colors = cost_view_colors(ui)]
             ELSE [ui EXCEPT !.usage_colors = usage_view_colors(ui)]
    /\ UNCHANGED <<pg, agg, app, lock, tasks, running>>

\* Up / Down in the metric column between two frames: the other view, and
\* group_by = Model with the Cost view
ViewMoved ==
    /\ ui.pc = "colors"
    /\ \E delta \in {-1, 1} :
        LET new_view == Cycle(Metrics, ui.current_view, delta) IN
        ui' = IF new_view = "Cost" /\ ui.group_by # "Model"
              THEN [ui EXCEPT !.current_view = new_view, !.group_by = "Model",
                              !.usage_colors = None]
              ELSE [ui EXCEPT !.current_view = new_view]
    /\ UNCHANGED <<pg, agg, app, lock, tasks, running>>

\* Up / Down in the group-by column between two frames, the view being
\* Usage: the frames of the usage chart drawn so far are of another grouping
GroupByMoved ==
    /\ ui.pc = "colors"
    /\ ui.current_view = "Usage"
    /\ \E delta \in {-1, 1} :
            ui' = [ui EXCEPT !.group_by = Cycle(GroupByOptions, ui.group_by, delta),
                             !.usage_colors = None]
    /\ UNCHANGED <<pg, agg, app, lock, tasks, running>>

\* Up / Down in the range column between two frames: the frames drawn so
\* far are of another range
RangeMoved ==
    /\ ui.pc = "colors"
    /\ \E delta \in {-1, 1} :
            ui' = [ui EXCEPT !.range = Cycle(RangeOrder, ui.range, delta),
                             !.cost_colors = None, !.usage_colors = None]
    /\ UNCHANGED <<pg, agg, app, lock, tasks, running>>

\* a fetch task of a provider with a client commits between two frames: the
\* cost and the usage records and the errors of the provider are replaced,
\* the frames drawn so far are of other records
RecordsCommitted ==
    /\ ui.pc = "colors"
    /\ ui.has_client
    /\ \E line_items, models \in SeqsUpTo(FetchedKeys, MaxCategories),
          errors \in FetchedErrors :
            ui' = [ui EXCEPT !.cost = replaced_records(ui.cost, CostRecordsOf(line_items)),
                             !.usage = replaced_records(ui.usage, UsageRecordsOf(models)),
                             !.errors = errors,
                             !.cost_colors = None, !.usage_colors = None]
    /\ UNCHANGED <<pg, agg, app, lock, tasks, running>>

\* a category of the filter list of the range-limited records is selected
SelectFilter ==
    /\ ui.pc = "filter"
    /\ LET items == cost_items(filter_cost_data_by_range(ui.cost, ui.range))
       IN  \E i \in 1..Len(items) :
                ui' = [ui EXCEPT !.pc = "selected", !.selected_filter = Some(items[i])]
    /\ UNCHANGED <<pg, agg, app, lock, tasks, running>>

\* render_cost_view: the records of the selected filter
ApplyFilter ==
    /\ ui.pc = "selected"
    /\ ui' = [ui EXCEPT !.pc = "applied",
                        !.filtered =
                            Some(apply_model_filter(
                                    filter_cost_data_by_range(ui.cost, ui.range),
                                    ui.selected_filter))]
    /\ UNCHANGED <<pg, agg, app, lock, tasks, running>>

\* fetch_openai_data stores the cost records of the buckets
StoreCosts ==
    /\ ui.pc = "totals"
    /\ ui' = [ui EXCEPT !.pc = "stored",
                        !.cost = Some(SortByDate(OpenAICostRecords(ui.buckets)))]
    /\ UNCHANGED <<pg, agg, app, lock, tasks, running>>

\* render_cost_view: the totals of the range-limited records
ProcessCost ==
    /\ ui.pc = "stored"
    /\ ui' = [ui EXCEPT !.pc = "processed",
                        !.chart = Some(process_cost_data(
                                        filter_cost_data_by_range(ui.cost[1], ui.range)))]
    /\ UNCHANGED <<pg, agg, app, lock, tasks, running>>

\* summary::render: while loading or without records of the provider the
\* banner is drawn and nothing is summarized
RenderSummary ==
    /\ ui.pc = "summary"
    /\ LET has_data == ui.cost # <<>> \/ ui.has_usage IN
        ui' = IF ui.loading \/ ~has_data
              THEN [ui EXCEPT !.pc = "summarized"]
              ELSE [ui EXCEPT !.pc = "summarized",
                              !.summary = Some(cost_summary(ui.cost, ui.range,
                                                            ui.current_view,
                                                            ui.selected_filter))]
    /\ UNCHANGED <<pg, agg, app, lock, tasks, running>>

\* the segments of one bar are drawn
RenderBar ==
    /\ ui.pc = "bar"
    /\ ui' = [ui EXCEPT !.pc = "drawn",
                        !.bar = Some(render_bar(ui.renderer, ui.other_totals, ui.values,
                                                ui.bar_area_height))]
    /\ UNCHANGED <<pg, agg, app, lock, tasks, running>>

NextChart ==
    \/ ViewMoved \/ GroupByMoved \/ RangeMoved \/ RecordsCommitted
    \/ FilterRange \/ FilterRangeAgain \/ SmartScale \/ RenderColors
    \/ SelectFilter \/ ApplyFilter \/ StoreCosts \/ ProcessCost \/ RenderSummary
    \/ RenderBar

SpecChart == InitChart /\ [][NextChart]_vars

----------------------------------------------------------------------------
(* NavigationState: the options columns, the filter list of the group-by *)
(* column and the records the filter set is computed from                *)


\* the records a fetch cycle may leave for a provider: none; a category "b"
\* 24 days before the latest day; one day only
NoRecords == [cost |-> <<>>, usage |-> <<>>]

OlderCategory ==
    [cost |-> <<[date |-> 0, line_item |-> Some(<<"b">>)],
                [date |-> 24 * 86400, line_item |-> Some(<<"a">>)]>>,
     usage |-> <<[date |-> 0, model |-> Some(<<"b">>), api_key_id |-> Some(<<"k">>)],
                 [date |-> 24 * 86400, model |-> Some(<<"a">>), api_key_id |-> Some(<<"k">>)]>>]

OneDay ==
    [cost |-> <<[date |-> 24 * 86400, line_item |-> Some(<<"a">>)]>>,
     usage |-> <<[date |-> 24 * 86400, model |-> Some(<<"a">>), api_key_id |-> Some(<<"k">>)]>>]

FetchedRecords == {NoRecords, OlderCategory, OneDay}

\* the navigation state at startup, the provider sessions empty
NewNavigation ==
    [options_column |-> "Provider",
     provider |-> "OpenAI",
     current_view |-> "Usage",
     group_by |-> "Model",
     range |-> "SevenDays",
     selected_filter |-> None,
     filter_cursor_index |-> 0,
     group_by_expanded |-> FALSE,
     data |-> [p \in Providers |-> NoRecords]]

\* the filter set of the current provider, metric, group-by and range: the
\* sorted categories of the range-limited, unfiltered records
get_available_filters(nav) ==
    LET records == nav.data[nav.provider]
    IN  IF nav.current_view = "Cost"
        THEN cost_items(filter_cost_data_by_range(records.cost, nav.range))
        ELSE LET in_range == filter_usage_data_by_range(records.usage, nav.range)
             IN  IF nav.group_by = "Model" THEN usage_items(in_range)
                 ELSE usage_key_items(in_range)

\* selected_filter back to "all"
reset_filter(nav) == [nav EXCEPT !.selected_filter = None, !.filter_cursor_index = 0]

\* Left / Right: the active column, cyclic
navigate_column(nav, delta) ==
    [nav EXCEPT !.options_column = Cycle(OptionsColumns, nav.options_column, delta)]

\* the cursor of the expanded filter list, cyclic over "all" and the filters
move_filter_cursor(nav, delta) ==
    LET filters == get_available_filters(nav)
        next == (nav.filter_cursor_index + delta) % (Len(filters) + 1)
    IN  [nav EXCEPT !.filter_cursor_index = next,
                    !.selected_filter = IF next = 0 THEN None ELSE Some(filters[next])]

\* Up / Down: the selection within the active column, cyclic
navigate_selection(nav, delta) ==
    CASE nav.options_column = "Provider" ->
            reset_filter([nav EXCEPT !.provider = Cycle(ProviderOrder, nav.provider, delta)])
      [] nav.options_column = "Metric" ->
            LET view == Cycle(Metrics, nav.current_view, delta)
            IN  reset_filter([nav EXCEPT !.current_view = view,
                                         !.group_by = IF view = "Cost" THEN "Model"
                                                      ELSE nav.group_by])
      [] nav.options_column = "GroupBy" ->
            IF nav.group_by_expanded THEN move_filter_cursor(nav, delta)
            ELSE IF nav.current_view = "Usage"
            THEN reset_filter([nav EXCEPT !.group_by =
                                              Cycle(GroupByOptions, nav.group_by, delta)])
            ELSE nav
      [] OTHER ->
            [nav EXCEPT !.range = Cycle(RangeOrder, nav.range, delta)]

\* Enter on the group-by column: the filter list is shown or hidden, the
\* filter kept
toggle_group_by_expansion(nav) ==
    [nav EXCEPT !.group_by_expanded = ~nav.group_by_expanded]

\* a fetch cycle of the provider ends: its records are replaced wholesale
replace_records(nav, provider, records) ==
    [nav EXCEPT !.data[provider] = records]

InitNav ==
    /\ ui = NewNavigation
    /\ pg = None
    /\ agg = None
    /\ app = None
    /\ lock = None
    /\ tasks = <<>>
    /\ running = TRUE

NavLeftRight ==
    /\ \E delta \in {-1, 1} : ui' = navigate_column(ui, delta)
    /\ UNCHANGED <<pg, agg, app, lock, tasks, running>>

NavUpDown ==
    /\ \E delta \in {-1, 1} : ui' = navigate_selection(ui, delta)
    /\ UNCHANGED <<pg, agg, app, lock, tasks, running>>

NavEnter ==
    /\ ui.options_column = "GroupBy"
    /\ ui' = toggle_group_by_expansion(ui)
    /\ UNCHANGED <<pg, agg, app, lock, tasks, running>>

NavFetchCompleted ==
    /\ \E provider \in Providers, records \in FetchedRecords :
            ui' = replace_records(ui, provider, records)
    /\ UNCHANGED <<pg, agg, app, lock, tasks, running>>

NextNav == NavLeftRight \/ NavUpDown \/ NavEnter \/ NavFetchCompleted

SpecNav == InitNav /\ [][NextNav]_vars

----------------------------------------------------------------------------
(* events.rs: handle_key_event over the App, and the loop acting on the *)
(* EventAction it returns                                               *)

\* the keys: the arrows, Enter, Esc, Backspace and the characters
ArrowKeys == {"Left", "Right", "Up", "Down"}
CharKeys == {" ", "k", "r", "q", "h", "l", "d"}
KeyCodes == ArrowKeys \cup {"Enter", "Esc", "Backspace"} \cup CharKeys

\* handle_api_key_input(key_code)
handle_api_key_input(a, key_code) ==
    IF key_code \in CharKeys THEN push_char(a, key_code)
    ELSE IF key_code = "Backspace" THEN pop_char(a)
    ELSE a

\* handle_key_event(app, key_code): the App afterwards and the EventAction;
\* done[p] is app.initial_fetch_done(p). The scroll offset, the segment
\* values and the expansion of the group-by column, which 'h', 'l', 'd' and
\* Enter change without a popup, are not part of this App.
handle_key_event(a, done, key_code) ==
    LET popup == IsSome(a.api_key_popup_active) IN
    CASE key_code \in {"Left", "Right"} ->
            [app |-> move_options_column(a, IF key_code = "Left" THEN -1 ELSE 1),
             action |-> "None"]
      [] key_code \in {"Up", "Down"} ->
            LET moved == move_column_cursor(a, IF key_code = "Up" THEN -1 ELSE 1)
                new_provider == current_provider(moved)
            IN  IF current_provider(a) # new_provider
                THEN IF ~has_client(moved, new_provider)
                     THEN [app |-> show_api_key_popup(moved, new_provider), action |-> "None"]
                     ELSE [app |-> cancel_api_key_popup(moved),
                           action |-> IF ~done[new_provider] THEN "Refresh" ELSE "None"]
                ELSE [app |-> moved, action |-> "None"]
      [] key_code = "Enter" /\ popup ->
            LET submitted == submit_api_key(a)
            IN  [app |-> submitted[1], action |-> IF submitted[2] THEN "Refresh" ELSE "None"]
      [] key_code = "Enter" /\ ~popup -> [app |-> a, action |-> "None"]
      [] key_code = "Esc" /\ popup -> [app |-> a, action |-> "Quit"]
      [] key_code # "Esc" /\ key_code \notin ArrowKeys \cup {"Enter"} /\ popup ->
            [app |-> handle_api_key_input(a, key_code), action |-> "None"]
      [] key_code = "r" /\ ~popup -> [app |-> a, action |-> "Refresh"]
      [] key_code = "q" /\ ~popup -> [app |-> a, action |-> "Quit"]
      [] OTHER -> [app |-> a, action |-> "None"]

InitKeys ==
    /\ \E openai_key, anthropic_key \in BOOLEAN :
        app = LET a1 == IF openai_key THEN set_openai_client(NewApp) ELSE NewApp
              IN  IF anthropic_key THEN set_anthropic_client(a1) ELSE a1
    /\ ui = [key_code |-> None, before |-> None, action |-> "None",
             initial_fetch_done |-> [p \in Providers |-> FALSE]]
    /\ running = TRUE
    /\ lock = None
    /\ tasks = <<>>
    /\ pg = None
    /\ agg = None

\* a key is pressed: the handler runs, and EventAction::Quit ends the loop
KeyPressed ==
    /\ running
    /\ \E key_code \in KeyCodes :
        /\ (key_code \in CharKeys /\ IsSome(app.api_key_popup_active))
                => Len(app.api_key_input) < MaxInput
        /\ LET handled == handle_key_event(app, ui.initial_fetch_done, key_code)
           IN  /\ app' = handled.app
               /\ ui' = [ui EXCEPT !.key_code = Some(key_code), !.before = Some(app),
                                   !.action = handled.action]
               /\ running' = (handled.action # "Quit")
    /\ UNCHANGED <<pg, agg, lock, tasks>>

\* the first fetch cycle of a provider with a client has completed
InitialFetchDone ==
    /\ running
    /\ \E provider \in Providers :
        /\ has_client(app, provider)
        /\ ~ui.initial_fetch_done[provider]
        /\ ui' = [ui EXCEPT !.initial_fetch_done[provider] = TRUE]
    /\ UNCHANGED <<pg, agg, app, lock, tasks, running>>

NextKeys == KeyPressed \/ InitialFetchDone

SpecKeys == InitKeys /\ [][NextKeys]_vars

----------------------------------------------------------------------------
(* Properties of the paginated calls *)

AllOkUpTo(call, n) == \A i \in 1..n : call.respLog[i].status = "ok"

\* The server's pages so far were a well-formed stream: every page answered
\* with success, has_more on every page except the last.
WellFormedStream(call) ==
    LET n == Len(call.respLog) IN
    /\ n >= 1
    /\ AllOkUpTo(call, n)
    /\ \A i \in 1..(n - 1) : call.respLog[i].has_more
    /\ ~call.respLog[n].has_more

ServedPages(call) ==
    Flatten([i \in 1..Len(call.reqLog) |-> ServerPage(call.kind, call.reqLog[i])])

\* C4: every cursor-paginated fetch (OpenAI costs, each OpenAI usage
\* sub-resource, Anthropic costs, Anthropic usage) makes at most 30 page
\* requests, also against a server that always answers has_more = true.
C4_AtMostThirtyRequests == Len(pg.reqLog) <= PageCap

\* C5: for a stream of at most 30 pages with has_more on every page but the
\* last, the call returns the concatenation of the pages in cursor order,
\* each request after the first carries the cursor of the preceding
\* response, and the call makes one request per has_more page plus the
\* terminal one: it does not stop before the terminal page and requests
\* nothing after it.
C5_ConcatenatesPagesInCursorOrder ==
    LET n == Len(pg.respLog) IN
    /\ Len(pg.reqLog) = n
    /\ (n >= 1 /\ n <= PageCap /\ AllOkUpTo(pg, n)) =>
        /\ pg.reqLog[1] = None
        /\ \A i \in 1..(n - 1) :
              /\ pg.respLog[i].has_more
              /\ pg.reqLog[i + 1] = pg.respLog[i].next_page
        /\ (pg.pc = "done" /\ n < PageCap) => ~pg.respLog[n].has_more
        /\ ~pg.respLog[n].has_more =>
              /\ pg.pc = "done"
              /\ pg.result = Some(Ok(ServedPages(pg)))
              /\ n = Cardinality({i \in 1..n : pg.respLog[i].has_more}) + 1

C5_Witness ==
    /\ WellFormedStream(pg)
    /\ Len(pg.respLog) = PageCap
    /\ pg.pc = "done"
    /\ Len(pg.result[1].val) >= PageCap
    /\ \A i \in 2..PageCap : pg.reqLog[i] # None

\* C6: a page request answered with a non-success status or an undecodable
\* body ends the call with an error at once: no further page is requested
\* and no record of the pages fetched before is returned.
C6_PageErrorAbortsCall ==
    \A i \in 1..Len(pg.respLog) :
        pg.respLog[i].status # "ok" =>
            /\ i = Len(pg.respLog)
            /\ Len(pg.reqLog) = i
            /\ pg.pc = "done"
            /\ pg.result = Some(Err(PageErrorText(pg.kind, pg.respLog[i].status)))
            /\ pg.all_buckets = <<>>

C6_Witness ==
    /\ pg.pc = "done"
    /\ Len(pg.respLog) >= 3
    /\ pg.respLog[Len(pg.respLog)].status \in {"http_error", "bad_body"}
    /\ ServedPages(pg) # <<>>
    /\ ~pg.result[1].ok

----------------------------------------------------------------------------
(* Properties of the aggregation *)

SubsJoined == agg.provider = "OpenAI" /\ agg.pc # "start"

\* C7: fetch_usage returns Err if and only if all three sub-resources
\* failed; a sub-resource that succeeds, also with zero records, makes it
\* return Ok.
C7_ErrIffAllThreeFailed ==
    SubsJoined =>
        (~agg.usage_result[1].ok <=> \A i \in 1..3 : ~agg.net.subs[i].ok)

OpenAIDone == agg.provider = "OpenAI" /\ agg.pc = "done"

\* the results of the usage buckets that carry tokens, as <<bucket, result>>
TokenResults(buckets) ==
    UNION { { <<b, r>> : r \in { k \in 1..Len(buckets[b].results) :
                                    \/ buckets[b].results[k].input_tokens > 0
                                    \/ buckets[b].results[k].output_tokens > 0 } } :
            b \in 1..Len(buckets) }

\* key-name resolution runs: some token-bearing result names a real key id
ResolutionRuns(buckets) ==
    \E br \in TokenResults(buckets) :
        LET id == buckets[br[1]].results[br[2]].api_key_id
        IN  id # None /\ id[1] \notin {"", "unknown"}

ResolutionFailed ==
    /\ agg.usage_result[1].ok
    /\ ResolutionRuns(agg.usage_result[1].val)
    /\ ~agg.net.projects.ok

CostResultCount(buckets) ==
    Cardinality(UNION { { <<b, r>> : r \in 1..Len(buckets[b].results) } :
                        b \in 1..Len(buckets) })

\* C8: when the usage fetch succeeds and key-name resolution fails, the
\* outcome holds every usage record obtained (the same records as when the
\* resolution succeeds), the usage error is the resolution failure (there is
\* no earlier usage error text to join it to), and the cost records and the
\* cost error are those of the cost call alone.
C8_KeyNameFailureKeepsUsage ==
    (OpenAIDone /\ ResolutionFailed) =>
        LET out == agg.outcome[1]
            buckets == agg.usage_result[1].val
            resolved == fetch_data("OpenAI", TRUE, TRUE,
                                   [agg.net EXCEPT !.projects = Ok(<<>>)])
        IN  /\ Len(out.usage_data) = Cardinality(TokenResults(buckets))
            /\ \A br \in TokenResults(buckets) :
                  \E i \in 1..Len(out.usage_data) :
                      /\ out.usage_data[i].input_tokens
                            = buckets[br[1]].results[br[2]].input_tokens
                      /\ out.usage_data[i].model = buckets[br[1]].results[br[2]].model
                      /\ out.usage_data[i].api_key_id
                            = buckets[br[1]].results[br[2]].api_key_id
            /\ out.usage_data = resolved.usage_data
            /\ out.errors.usage = Some("API key name fetch failed: Failed to fetch projects")
            /\ out.cost_data = resolved.cost_data
            /\ out.errors.cost = resolved.errors.cost
            /\ out.errors.cost = IF agg.net.costs.ok THEN None ELSE Some(agg.net.costs.err)
            /\ agg.net.costs.ok => Len(out.cost_data) = CostResultCount(agg.net.costs.val)

C8_Witness ==
    /\ OpenAIDone
    /\ ResolutionFailed
    /\ Len(agg.outcome[1].usage_data) = 3
    /\ Len(agg.outcome[1].cost_data) = 3
    /\ agg.outcome[1].errors.cost = None

\* C9: in every fetch outcome the cost error is present exactly when the
\* cost call failed and is that call's error; the usage error is present
\* exactly when the usage call or the key-name resolution failed and holds
\* only that failure's text; both can be present at once.
C9_CostAndUsageErrorsIndependent ==
    agg.pc = "done" =>
        LET out == agg.outcome[1]
            usage == agg.usage_result[1]
            resolutionFailed == agg.provider = "OpenAI" /\ ResolutionFailed
        IN  /\ out.errors.cost # None <=> ~agg.net.costs.ok
            /\ ~agg.net.costs.ok => out.errors.cost = Some(agg.net.costs.err)
            /\ out.errors.usage # None <=> (~usage.ok \/ resolutionFailed)
            /\ ~usage.ok => out.errors.usage = Some("Usage fetch failed: " \o usage.err)
            /\ resolutionFailed => out.errors.usage
                    = Some("API key name fetch failed: Failed to fetch projects")

\* both errors present at once, the usage one from the key-name resolution
C9_Witness ==
    /\ OpenAIDone
    /\ ResolutionFailed
    /\ ~agg.net.costs.ok
    /\ agg.outcome[1].errors.cost # None
    /\ agg.outcome[1].errors.usage # None
    /\ agg.outcome[1].errors.cost # agg.outcome[1].errors.usage

----------------------------------------------------------------------------
(* Properties of the fetch tasks *)

OtherProvider(p) == IF p = "OpenAI" THEN "Anthropic" ELSE "OpenAI"

StoredCost(a, p) == IF p = "OpenAI" THEN a.data.openai ELSE a.data.anthropic

StoredUsage(a, p) == IF p = "OpenAI" THEN a.data.openai_usage ELSE a.data.anthropic_usage

StoredNames(a, p) ==
    IF p = "OpenAI" THEN a.data.openai_api_key_names ELSE a.data.anthropic_api_key_names

StoredErrors(a, p) == IF p = "OpenAI" THEN a.openai_errors ELSE a.anthropic_errors

Stored(a, p) ==
    [cost |-> StoredCost(a, p), usage |-> StoredUsage(a, p),
     names |-> StoredNames(a, p), errors |-> StoredErrors(a, p)]

\* the step in which task t stores its outcome
Commits(t) == tasks[t].pc = "commit" /\ tasks'[t].pc = "done"

\* C1: at most one fetch is in flight per provider: a fetch triggered for a
\* provider while a fetch for it is still in flight starts no second
\* network fetch.
C1_OneFetchInFlightPerProvider ==
    \A p \in Providers :
        Cardinality({ t \in TaskIds :
                        tasks[t].pc = "fetching" /\ tasks[t].provider = Some(p) }) <= 1

\* C2: a fetch started while provider X was selected stores its records,
\* key names and errors as provider X's, whatever provider is selected when
\* it completes, and leaves the other provider's stored records, key names
\* and errors unchanged.
C2_CommitsToOriginatingProvider ==
    [][\A t \in TaskIds :
        Commits(t) =>
            LET p == tasks[t].provider[1]
                out == tasks[t].result[1]
            IN  /\ Stored(app', p) = [cost |-> out.cost_data, usage |-> out.usage_data,
                                      names |-> out.api_key_names, errors |-> out.errors]
                /\ Stored(app', OtherProvider(p)) = Stored(app, OtherProvider(p))]_vars

\* a task that committed non-empty records while the other provider was selected
C2_Witness ==
    \E t \in TaskIds :
        /\ tasks[t].pc = "done"
        /\ tasks[t].result # None
        /\ tasks[t].selected_at_commit = Some(OtherProvider(tasks[t].provider[1]))
        /\ app.selected_provider = OtherProvider(tasks[t].provider[1])
        /\ StoredCost(app, tasks[t].provider[1]) = tasks[t].result[1].cost_data
        /\ StoredCost(app, tasks[t].provider[1]) # <<>>
        /\ StoredCost(app, app.selected_provider) = <<>>

\* C3: a fetch task does not hold the App lock while its fetch is pending:
\* whoever holds the lock is at a step that ends without waiting for the
\* network, so the main loop gets the lock while fetches are in progress.
C3_NoLockAcrossFetch ==
    /\ \A t \in TaskIds : tasks[t].pc \in {"fetching", "returned"} => lock # Some(t)
    /\ lock # None => tasks[lock[1]].pc \in {"snapshot", "commit"}

\* a key was handled and the lock is free while a fetch is pending
C3_Witness ==
    /\ running
    /\ lock = None
    /\ \E t \in TaskIds : tasks[t].pc = "fetching"
    /\ app.loading
    /\ app.options_column = "Metric"

\* the cost call, the usage call of the task's fetch returned Err
CostCallFailed(task) == ~task.net[1].costs.ok

UsageCallFailed(task) ==
    IF task.provider[1] = "OpenAI"
    THEN ~fetch_usage(task.net[1].subs).ok
    ELSE ~task.net[1].usage.ok

\* C10 as stated: a fetch cycle whose cost (usage) call failed leaves the
\* stored cost (usage) records as they were.
C10_FailedCallKeepsStoredRecords ==
    [][\A t \in TaskIds :
        Commits(t) =>
            LET p == tasks[t].provider[1] IN
            /\ CostCallFailed(tasks[t]) => StoredCost(app', p) = StoredCost(app, p)
            /\ UsageCallFailed(tasks[t]) => StoredUsage(app', p) = StoredUsage(app, p)]_vars

\* C10 amended: a provider's stored cost and usage records change only in
\* the step in which a fetch task of that provider stores its outcome, and
\* then by replacement: they become exactly the outcome's records, not
\* merged with the earlier ones; the outcome of a failed cost (usage) call
\* has no cost (usage) records, so a failed call empties the stored list.
C10_RecordsReplacedByEveryOutcome ==
    [][/\ \A p \in Providers :
            (StoredCost(app', p) # StoredCost(app, p)
             \/ StoredUsage(app', p) # StoredUsage(app, p))
                => \E t \in TaskIds : Commits(t) /\ tasks[t].provider = Some(p)
       /\ \A t \in TaskIds :
            Commits(t) =>
                LET p == tasks[t].provider[1]
                    out == tasks[t].result[1]
                IN  /\ StoredCost(app', p) = out.cost_data
                    /\ StoredUsage(app', p) = out.usage_data
                    /\ CostCallFailed(tasks[t]) => StoredCost(app', p) = <<>>
                    /\ UsageCallFailed(tasks[t]) => StoredUsage(app', p) = <<>>]_vars

\* two fetch cycles of one provider ended with different non-empty cost
\* records, and the stored records are those of one of them
C10_Witness ==
    \E t, u \in TaskIds :
        /\ t # u
        /\ tasks[t].pc = "done" /\ tasks[u].pc = "done"
        /\ tasks[t].result # None /\ tasks[u].result # None
        /\ tasks[t].provider = tasks[u].provider
        /\ tasks[t].result[1].cost_data # <<>>
        /\ tasks[u].result[1].cost_data # <<>>
        /\ tasks[t].result[1].cost_data # tasks[u].result[1].cost_data
        /\ StoredCost(app, tasks[t].provider[1]) = tasks[t].result[1].cost_data
        /\ StoredUsage(app, tasks[t].provider[1]) = tasks[t].result[1].usage_data

----------------------------------------------------------------------------
(* Properties of the navigation and of what starts a fetch *)

\* the step in which task t starts its network fetch
StartsFetch(t) == tasks[t].pc = "snapshot" /\ tasks'[t].pc = "fetching"

\* the key commands that call spawn_fetch_task
UserCommands == {"move", "enter", "refresh"}

\* C11: every fetch is started by a user command (the first one by the
\* launch of the program), and when a provider's fetch has completed with an
\* error, the only input that starts another fetch for that provider is the
\* refresh command: moving the provider selection away and back does not.
C11_OnlyRefreshRefetchesAfterError ==
    [][\A t \in TaskIds :
        StartsFetch(t) =>
            /\ tasks[t].trigger \in UserCommands \cup {"launch"}
            /\ (tasks[t].error_target /\ tasks'[t].provider = tasks[t].target)
                    => tasks[t].trigger = "refresh"]_vars

\* C12: in every reachable navigation state the Cost metric goes with
\* group_by = Model: the switch to Cost sets it, and the group-by selection
\* does not move while the metric is Cost.
C12_CostImpliesGroupByModel ==
    app.current_view = "Cost" => app.group_by = "Model"

\* the Cost metric is selected and the cursor is in the group-by column,
\* where Up/Down would select ApiKeys under the Usage metric
C12_Witness ==
    /\ app.current_view = "Cost"
    /\ app.group_by = "Model"
    /\ app.options_column = "GroupBy"
    /\ ~IsSome(app.api_key_popup_active)

\* the step in which a selection move spawns its task
MoveSpawns(t) == tasks[t].pc = "idle" /\ tasks'[t].pc = "spawned" /\ tasks'[t].trigger = "move"

\* C14: a move in the Provider column that changes the selected provider
\* opens the API-key popup for a new provider without credentials and starts
\* no fetch; otherwise it closes the popup and starts a fetch exactly when
\* that provider has never been fetched.
C14_MoveFetchesIffNeverFetched ==
    [][\A t \in TaskIds :
        /\ MoveSpawns(t) =>
                LET new_provider == tasks'[t].target[1] IN
                /\ app'.selected_provider = new_provider
                /\ app'.api_key_popup_active =
                        IF has_client(app', new_provider) THEN None ELSE Some(new_provider)
        /\ (tasks[t].pc = "snapshot" /\ tasks'[t].pc # "snapshot"
                /\ tasks[t].trigger = "move") =>
                /\ StartsFetch(t) <=> tasks[t].fresh_target
                /\ StartsFetch(t) => tasks'[t].provider = tasks[t].target]_vars

----------------------------------------------------------------------------
(* Properties of the chart layout *)

\* the layout of the last render pass
Laid == ui.rendered /\ IsSome(ui.layout)

\* the last render pass had a row for the bars
HasBarRows == ui.rendered /\ bar_area_height_of(ui.area_height) > 0

UsedWidth(l) == l.visible_bars * l.bar_width + (l.visible_bars - 1) * l.spacing

\* C15: the layout is None exactly when total_bars = 0 or the width is
\* below the minimum bar width 5, and a returned layout has bar_width >= 5.
C15_NoneIffNoMinimumBarFits ==
    HasBarRows =>
        /\ ui.layout = None <=> (ui.total_bars = 0 \/ ui.area_width < MIN_BAR_WIDTH)
        /\ IsSome(ui.layout) => ui.layout[1].bar_width >= MIN_BAR_WIDTH

\* C16: a returned layout shows between 1 and total_bars bars, none wider
\* than MAX_BAR_WIDTH, which fit in the width together with their spacing
\* and the offset, the offset being half of the unused width rounded down.
C16_LayoutFitsWidth ==
    Laid =>
        LET l == ui.layout[1] IN
        /\ 1 <= l.visible_bars
        /\ l.visible_bars <= ui.total_bars
        /\ l.bar_width <= MAX_BAR_WIDTH
        /\ l.offset + UsedWidth(l) <= ui.area_width
        /\ l.offset = (ui.area_width - UsedWidth(l)) \div 2

\* a bar that would be wider than MAX_BAR_WIDTH without the cap, with the
\* slack it leaves split on both sides
C16_Witness ==
    /\ Laid
    /\ ui.layout[1].bar_width = MAX_BAR_WIDTH
    /\ ui.layout[1].visible_bars = 1
    /\ ui.area_width > MAX_BAR_WIDTH + 1
    /\ ui.layout[1].offset > 0

\* C17: in a returned layout start_index = min(scroll_offset, total_bars -
\* visible_count), so the window start_index .. start_index + visible_count
\* lies within the dates; this holds for the initial stored offset
\* usize::MAX and for the offsets that scroll inputs and earlier render
\* passes leave.
C17_StartIndexClamped ==
    Laid =>
        LET l == ui.layout[1] IN
        /\ l.start_index = Min(ui.scroll_offset, ui.total_bars - l.visible_bars)
        /\ l.start_index >= 0
        /\ l.start_index + l.visible_bars <= ui.total_bars

\* a stored offset beyond the last window (one scroll input after an
\* earlier render pass of a longer chart) was clamped to the last window
C17_Witness ==
    /\ Laid
    /\ ui.scroll_offset < USIZE_MAX
    /\ ui.scroll_offset > ui.total_bars - ui.layout[1].visible_bars
    /\ ui.layout[1].start_index = ui.total_bars - ui.layout[1].visible_bars
    /\ ui.layout[1].start_index > 0
    /\ ui.chart_scroll = ui.layout[1].start_index

----------------------------------------------------------------------------
(* Properties of the chart computations *)

\* the places of the positive totals
PositivePlaces(totals) == {i \in 1..Len(totals) : totals[i] > 0}

\* the element at index floor(0.75 * n), at most n - 1, of the ascending
\* positive totals: the value with at most that many positive totals below
\* it and more than that many not above it
Percentile75(totals) ==
    LET pos == PositivePlaces(totals)
        n == Cardinality(pos)
        idx == CHOOSE k \in 0..(n - 1) :
                    \/ 4 * k <= 3 * n /\ 3 * n < 4 * (k + 1)
                    \/ k = n - 1 /\ 3 * n >= 4 * n
    IN  CHOOSE v \in {totals[i] : i \in pos} :
            /\ Cardinality({i \in pos : totals[i] < v}) <= idx
            /\ Cardinality({i \in pos : totals[i] <= v}) > idx

\* C18: for a non-empty list of totals with a positive maximum the smart
\* scale returns the maximum as actual_max and, p75 being the element at
\* index floor(0.75 n) of the n ascending positive totals, display_max =
\* 2 p75 when actual_max > 3 p75 and actual_max otherwise; the totals
\* 10,10,10,10,100 give 20 and 100; display_max is never above actual_max.
C18_SmartScaleCompressesOutliers ==
    (ui.pc = "scaled" /\ \E i \in 1..Len(ui.totals) : ui.totals[i] > 0) =>
        LET scale == ui.scale[1]
            p75 == Percentile75(ui.totals)
        IN  /\ \E i \in 1..Len(ui.totals) : ui.totals[i] = scale.actual_max
            /\ \A i \in 1..Len(ui.totals) : ui.totals[i] <= scale.actual_max
            /\ scale.display_max =
                    IF scale.actual_max > 3 * p75 THEN 2 * p75 ELSE scale.actual_max
            /\ scale.display_max <= scale.actual_max
            /\ ui.totals = <<10, 10, 10, 10, 100>>
                    => scale = [display_max |-> 20, actual_max |-> 100]

\* the scale of the totals 10,10,10,10,100
C18_Witness ==
    /\ ui.pc = "scaled"
    /\ ui.totals = <<10, 10, 10, 10, 100>>
    /\ ui.scale = Some([display_max |-> 20, actual_max |-> 100])

\* the places of the records not older than range_days - 1 days before the
\* latest date of the list
PlacesInRange(data, range) ==
    {i \in 1..Len(data) :
        \E l \in 1..Len(data) :
            /\ \A k \in 1..Len(data) : data[k].date <= data[l].date
            /\ data[i].date >= data[l].date - (RangeDays(range) - 1) * 86400}

\* out is the records of data at the places, in the order of data
IsSelection(out, data, places) ==
    /\ Len(out) = Cardinality(places)
    /\ \A j \in 1..Len(out) :
            \E i \in places :
                /\ Cardinality({k \in places : k <= i}) = j
                /\ out[j] = data[i]

\* C20: the range filter keeps exactly the records whose date is at least
\* the latest date of its input minus (range_days - 1) days, in their
\* order; applied to its own result with the same range it returns that
\* result; an empty input gives an empty output.
C20_RangeFilterKeepsWindowAndIsIdempotent ==
    /\ ui.pc \in {"filtered", "ranged"} =>
            /\ IsSelection(ui.first[1], ui.data, PlacesInRange(ui.data, ui.range))
            /\ ui.data = <<>> => ui.first[1] = <<>>
    /\ ui.pc = "ranged" => ui.second = ui.first

\* a seven-day window that dropped a record and kept two, filtered again
C20_Witness ==
    /\ ui.pc = "ranged"
    /\ ui.range = "SevenDays"
    /\ Len(ui.first[1]) = 2
    /\ Len(ui.data) = 3
    /\ ui.first[1][1].date # ui.first[1][2].date
    /\ ui.second = ui.first

\* the names that are set and not blank, trimmed
NamedKeys(names) == {Trim(name[1]) : name \in {n \in names : IsSome(n) /\ Trim(n[1]) # <<>>}}

\* the keys that are a line item of the cost records and a model of the
\* usage records of the provider
SharedCategories ==
    NamedKeys({ui.cost[i].line_item : i \in 1..Len(ui.cost)})
        \cap NamedKeys({ui.usage[i].model : i \in 1..Len(ui.usage)})

\* C19: a category key that is a line item of the provider's cost data and a
\* model of its usage data has the same colour in the cost chart and in the
\* usage chart.
C19_SameColourInBothCharts ==
    (ui.pc = "colors" /\ ui.group_by = "Model"
        /\ IsSome(ui.cost_colors) /\ IsSome(ui.usage_colors)) =>
        \A key \in SharedCategories :
            ColorOf(ui.cost_colors[1], key) = ColorOf(ui.usage_colors[1], key)

\* the places of the records that grouping puts under the category
PlacesUnder(data, category) ==
    {i \in 1..Len(data) : CategoryKey(data[i].line_item) = category}

\* C21: with a filter selected from the categories listed for the
\* range-limited records ("unknown" included), the category filter keeps
\* exactly the records whose group key, trimmed and "unknown" when absent or
\* blank, equals the filter.
C21_FilterKeepsRecordsOfCategory ==
    ui.pc = "applied" =>
        LET in_range == filter_cost_data_by_range(ui.cost, ui.range)
        IN  IsSelection(ui.filtered[1], in_range,
                        PlacesUnder(in_range, ui.selected_filter[1]))

\* the sum of the costs of the records at the places
RECURSIVE CostAt(_, _)
CostAt(data, places) ==
    IF places = {} THEN 0
    ELSE LET i == CHOOSE k \in places : TRUE
         IN  data[i].cost + CostAt(data, places \ {i})

\* the range-limited records the totals are computed from
ChartRecords == filter_cost_data_by_range(ui.cost[1], ui.range)

\* C22: in the grouped totals the entry of a date and a category is the sum
\* of the costs of the records of that date and group key, and no entry is
\* zero: a category whose total for a date is zero is absent from the map of
\* the date.
C22_TotalsAreSumsWithoutZeroEntries ==
    ui.pc = "processed" =>
        LET daily_costs == ui.chart[1].daily_costs
        IN  \A date \in DOMAIN daily_costs :
                \A item \in DOMAIN daily_costs[date] :
                    /\ daily_costs[date][item] =
                            CostAt(ChartRecords,
                                   {i \in 1..Len(ChartRecords) :
                                        /\ date_str(ChartRecords[i].date) = date
                                        /\ CategoryKey(ChartRecords[i].line_item) = item})
                    /\ daily_costs[date][item] # 0

\* C30: the dates of the chart, sorted as month/day strings, are one per
\* distinct calendar day of the records and in the order of the days.
C30_BarsInChronologicalOrder ==
    ui.pc = "processed" =>
        LET dates == ui.chart[1].dates
        IN  /\ Len(dates) = Cardinality({ChartRecords[i].date : i \in 1..Len(ChartRecords)})
            /\ \A i, j \in 1..Len(dates) :
                    i < j =>
                        \A r1, r2 \in 1..Len(ChartRecords) :
                            (/\ date_str(ChartRecords[r1].date) = dates[i]
                             /\ date_str(ChartRecords[r2].date) = dates[j])
                                => ChartRecords[r1].date < ChartRecords[r2].date

\* the summary of the Cost view over ten days of gpt-4 at 5 and gpt-3.5 at 1
\* a day, the range being seven days
TenDaysSummarized ==
    /\ ui.pc = "summarized"
    /\ IsSome(ui.summary)
    /\ ui.cost = DailyCosts(10)
    /\ ui.range = "SevenDays"
    /\ ui.current_view = "Cost"

\* C23: for cost records of 10 consecutive days with gpt-4 at 5 and gpt-3.5
\* at 1 a day, the summary of the 7-day range covers the last 7 days and
\* reports total 42 and average per day 6; with the filter gpt-4 it reports
\* total 35.
C23_SevenDaySummaryOfTenDays ==
    TenDaysSummarized =>
        /\ ui.selected_filter = None =>
                /\ ui.summary[1].total_cost = 4200
                /\ ui.summary[1].avg_cost_per_day.num = 600 * ui.summary[1].avg_cost_per_day.den
                /\ ui.summary[1].cost_bounds = Some(<<4 * 86400, 10 * 86400>>)
        /\ ui.selected_filter = Some(Gpt4) =>
                /\ ui.summary[1].total_cost = 3500
                /\ ui.summary[1].cost_bounds = Some(<<4 * 86400, 10 * 86400>>)

\* the ten-day scenario summarized with the filter gpt-4
C23_Witness ==
    /\ TenDaysSummarized
    /\ ui.selected_filter = Some(Gpt4)
    /\ ui.summary[1].total_cost = 3500

\* the rows the segments at the places take
RECURSIVE RowsAt(_, _)
RowsAt(heights, places) ==
    IF places = {} THEN 0
    ELSE LET i == CHOOSE k \in places : TRUE
         IN  heights[i] + RowsAt(heights, places \ {i})

\* C24: a bar whose total exceeds display_max is drawn at the full height:
\* the heights of its segments sum to bar_area_height.
C24_CappedBarFillsBarArea ==
    (ui.pc = "drawn" /\ ui.renderer = "shared" /\ ui.bar[1].total > ui.bar[1].scale_max) =>
        RowsAt(ui.bar[1].heights, DOMAIN ui.bar[1].heights) = ui.bar_area_height

\* C25 as stated: every category with a positive value has a segment of at
\* least one row, and the segments take at most bar_area_height rows.
C25_EveryPositiveCategoryDrawn ==
    ui.pc = "drawn" =>
        /\ \A i \in 1..Len(ui.values) : ui.values[i] > 0 => ui.bar[1].heights[i] >= 1
        /\ RowsAt(ui.bar[1].heights, DOMAIN ui.bar[1].heights) <= ui.bar_area_height

\* C25, amended: the segments take at most bar_area_height rows; only
\* categories with a positive value have a segment; a category with a
\* positive value has a segment of at least one row unless the segments
\* below it already fill the bar area.
C25_SegmentsStayInsideBarArea ==
    ui.pc = "drawn" =>
        LET heights == ui.bar[1].heights
        IN  /\ Len(heights) = Len(ui.values)
            /\ RowsAt(heights, DOMAIN heights) <= ui.bar_area_height
            /\ \A i \in 1..Len(ui.values) :
                    /\ heights[i] >= 0
                    /\ ui.values[i] <= 0 => heights[i] = 0
                    /\ ui.values[i] > 0 =>
                            \/ heights[i] >= 1
                            \/ RowsAt(heights, 1..(i - 1)) = ui.bar_area_height

\* a bar whose first segment leaves one row, which the second takes whole, so
\* that the third positive category has no segment
C25_Witness ==
    /\ ui.pc = "drawn"
    /\ ui.values = <<33, 33, 1>>
    /\ ui.bar_area_height = 2
    /\ ui.bar[1].heights = <<1, 1, 0>>

----------------------------------------------------------------------------
(* Properties of the navigation state *)

\* C13: in every reachable navigation state selected_filter, if set, is one
\* of the filters computed for the current provider, metric, group-by and
\* range.
C13_SelectedFilterInFilterSet ==
    IsSome(ui.selected_filter) =>
        \E i \in 1..Len(get_available_filters(ui)) :
            get_available_filters(ui)[i] = ui.selected_filter[1]

----------------------------------------------------------------------------
(* Properties of the page cursors *)

\* C29: within one paginated call no two requests carry the same cursor,
\* two requests without a cursor included: after a response with has_more
\* and no next-page cursor the call requests nothing more.
C29_NoCursorRequestedTwice ==
    \A i, j \in 1..Len(pg.reqLog) : i < j => pg.reqLog[i] # pg.reqLog[j]

----------------------------------------------------------------------------
(* Properties of the loading flag *)

\* task t has started its network fetch and has not yet stored the outcome
InFlight(t) == tasks[t].pc \in {"fetching", "returned", "commit"}

\* C28: the loading flag is true whenever a fetch task is between starting
\* its network fetch and committing its result.
C28_LoadingWhileFetchInFlight ==
    (\E t \in TaskIds : InFlight(t)) => app.loading

----------------------------------------------------------------------------
(* Properties of the key handling *)

\* the last key was pressed while the popup was active
PressedInPopup(key_codes) ==
    /\ IsSome(ui.key_code)
    /\ ui.key_code[1] \in key_codes
    /\ IsSome(ui.before[1].api_key_popup_active)

\* C26: with the API-key popup active, Esc clears the popup and the typed
\* input and does not quit; a character key, 'r' and 'q' included, is
\* appended to the input and neither refreshes nor quits.
C26_EscCancelsPopupAndCharsAreTyped ==
    /\ PressedInPopup({"Esc"}) =>
            /\ running
            /\ ui.action # "Quit"
            /\ app.api_key_popup_active = None
            /\ app.api_key_input = <<>>
    /\ PressedInPopup(CharKeys) =>
            /\ running
            /\ ui.action = "None"
            /\ app.api_key_input = Append(ui.before[1].api_key_input, ui.key_code[1])

\* C27: when the API-key popup is active for a provider, that provider is
\* the selected one and has no client; submitting a blank key returns false
\* and leaves the popup and both clients as they were; submitting a
\* non-blank key sets the provider's client and closes the popup.
C27_PopupIsForSelectedProviderWithoutClient ==
    /\ IsSome(app.api_key_popup_active) =>
            /\ app.api_key_popup_active[1] = current_provider(app)
            /\ ~has_client(app, app.api_key_popup_active[1])
    /\ PressedInPopup({"Enter"}) =>
            LET before == ui.before[1] IN
            IF Trim(before.api_key_input) = <<>>
            THEN /\ ui.action = "None"
                 /\ app.api_key_popup_active = before.api_key_popup_active
                 /\ app.openai_client = before.openai_client
                 /\ app.anthropic_client = before.anthropic_client
            ELSE /\ ui.action = "Refresh"
                 /\ has_client(app, before.api_key_popup_active[1])
                 /\ app.api_key_popup_active = None

\* a key typed into the popup of Anthropic has been submitted
C27_Witness ==
    /\ PressedInPopup({"Enter"})
    /\ ui.before[1].api_key_popup_active = Some("Anthropic")
    /\ ui.before[1].api_key_input = <<"k">>
    /\ app.anthropic_client
    /\ app.api_key_popup_active = None

====
